---------------------------- MODULE Spec2Model ----------------------------
(***************************************************************************)
(* A model of danmaid/webnative-cas: the ZIP ingest (uploadZipAsFileset),  *)
(* the manifest it builds, and the content-addressable store it writes.    *)
(*                                                                         *)
(* Seven specifications share the module:                                  *)
(*   SpecManifest  the reconciliation loop's duplicate handling, the sort, *)
(*                 the canonical string and the fileset id, run on two     *)
(*                 Central Directory lists side by side;                   *)
(*   SpecStore     two ingests and the file operations of CasStore,        *)
(*                 interleaved one file-system call at a time;             *)
(*   SpecIngest    one ingest, byte by byte: the tee, the byte queue, the  *)
(*                 ZIP stream reader, the Central Directory reader and     *)
(*                 the spool fallback;                                     *)
(*   SpecNormalize normalizeZipPath applied to a file name, and again to   *)
(*                 its result;                                             *)
(*   SpecServe     two calls of the HTTP handler of server.ts on a store   *)
(*                 that holds an object and two refs;                      *)
(*   SpecQueue     one AsyncByteQueue: chunks arriving, read, peekU32LE;   *)
(*   SpecIngestLive SpecIngest with the event loop's steps weakly fair.    *)
(*                                                                         *)
(* Strings are sequences of Unicode code points, buffers are sequences of  *)
(* bytes.                                                                  *)
(***************************************************************************)
EXTENDS Integers, Sequences, FiniteSets, TLC

VARIABLES
  \* ---- SpecManifest: two runs of the reconciliation tail -----------------
  mCd,           \* run -> the (norm, r) pairs the loop over cd.entries sees
  mIdx,          \* run -> number of CD entries already handled
  finalEntries,  \* run -> finalEntries
  seenPaths,     \* run -> seenPaths, a map path -> 0-based index
  mWarnings,     \* run -> warnings
  mManifest,     \* run -> the manifest built, as an optional value
  mRun,          \* the run now executing (3: none)
  \* ---- SpecStore: the store's directory tree and the two ingests ---------
  fsNames,       \* path -> inode, for every file that exists
  fsData,        \* inode -> content, a sequence of cells
  fsDirs,        \* the directories that exist
  pc,            \* ingest -> where it is in uploadZipAsFileset
  updateRef,     \* ingest -> opts.updateRef, an optional ref name
  tmpPath,       \* ingest -> the temp path of the entry being processed
  fd,            \* ingest -> the inode its open file handle writes to
  err,           \* ingest -> the error it threw, as an optional value
  wroteManifest, \* ingest -> it changed a published manifest under filesets/
  changedRef,    \* ingest -> it changed the content of a ref
  \* ---- SpecIngest: the request, the tee and the spool --------------------
  archiveId,     \* which upload the request sends
  body,          \* the bytes of the request body
  maxZipBytes,   \* limits.maxZipBytes
  limits,        \* limits: maxEntries, maxFileBytes, maxTotalBytes
  sent,          \* bytes the request has delivered in 'data' events
  seen,          \* teeToSpool's seen
  spoolLen,      \* bytes written to the spool file
  reqState,      \* "flowing", "ended" or "destroyed"
  wsState,       \* the spool writer: "open", "ending", "finished", "errored"
  sharedErr,     \* the error req, pass and ws were destroyed with, optional
  \* ---- SpecIngest: AsyncByteQueue ----------------------------------------
  qHead,         \* consumedTotal
  qLen,          \* length
  qEnded,        \* ended
  qDiscarding,   \* discarding
  waiters,       \* waiters, by the task that waits
  runq,          \* the continuations ready to run, in order
  need,          \* the n of the ensure(n) the ingest's code is in
  \* ---- SpecIngest: ZipStreamReader and uploadZipAsFileset ----------------
  pumpTick,      \* streamUnknown's Readable is about to call read()
  pumpState,     \* streamUnknown's Readable: "off", "on", "eof" (pushed null)
  hdr,           \* the header nextHeader is reading or has returned, optional
  remaining,     \* streamExact's remaining
  bodyBuf,       \* the bytes the entry's pipeline has taken from its source
  processed,     \* processed: local header offset -> StreamResult
  entryCount,    \* entryCount
  totalBytes,    \* totalBytes
  result,        \* r of the streaming loop, optional
  cdEntries,     \* cd.entries
  cdIdx,         \* number of cd.entries the reconciliation loop has handled
  \* ---- SpecIngest: the spool file and the back-pressure of teeToSpool ----
  keepSpool,     \* process.env.KEEP_SPOOL is set
  spoolFile,     \* the file at spoolPath: "present", "removed", "unlink_failed"
  passLen,       \* bytes written to pass
  awaiting,      \* the sinks whose 'drain' a resumeIfReady is registered on
  sinkReady,     \* what write() of the two sinks may answer, a set of [Sinks -> BOOLEAN]
  \* ---- SpecNormalize: normalizeZipPath on one file name ------------------
  nzName,        \* the file name
  nzCalls,       \* how many times normalizeZipPath was applied (0, 1, 2)
  nzResult,      \* the results of the calls, in order: [err, path] each
  \* ---- SpecServe: the request handler of server.ts ----------------------
  request,       \* handler call -> the request it serves
  response,      \* handler call -> what it has written to res, optional
  \* ---- SpecQueue: one AsyncByteQueue, chunk by chunk -----------------------
  cqChunks,      \* chunks
  cqLength,      \* length
  cqConsumed,    \* consumedTotal
  cqOut,         \* the bytes the read calls of the reader have returned, in order
  cqLast         \* the last call: [op, err, value], optional

manVars == <<mCd, mIdx, finalEntries, seenPaths, mWarnings, mManifest, mRun>>
fsVars == <<fsNames, fsData, fsDirs>>
procVars == <<pc, updateRef, tmpPath, fd, err, wroteManifest, changedRef>>

teeVars == <<archiveId, body, maxZipBytes, limits, sent, seen, spoolLen, reqState, wsState, sharedErr>>
qVars == <<qHead, qLen, qEnded, qDiscarding, waiters, runq, need>>
zrVars == <<pumpTick, pumpState, hdr, remaining, bodyBuf, processed, entryCount,
            totalBytes, result, cdEntries, cdIdx>>
bpVars == <<keepSpool, spoolFile, passLen, awaiting, sinkReady>>
ingVars == <<teeVars, bpVars, qVars, zrVars>>
nzVars == <<nzName, nzCalls, nzResult>>
srvVars == <<request, response>>
cqVars == <<cqChunks, cqLength, cqConsumed, cqOut, cqLast>>
auxVars == <<nzVars, srvVars, cqVars>>

vars == <<manVars, fsVars, procVars, ingVars, auxVars>>

\* An optional value: <<>> for none, <<v>> for the value v.
None == <<>>
Some(v) == <<v>>

-----------------------------------------------------------------------------
(* Sequences and numbers *)

Min(a, b) == IF a <= b THEN a ELSE b

RECURSIVE SumSizes(_)
SumSizes(es) == IF es = <<>> THEN 0 ELSE Head(es).size + SumSizes(Tail(es))

Range(s) == {s[i] : i \in DOMAIN s}

\* -1, 0 or 1: the lexicographic order of two sequences of numbers.
RECURSIVE LexCmp(_, _)
LexCmp(a, b) ==
  IF a = <<>> /\ b = <<>> THEN 0
  ELSE IF a = <<>> THEN -1
  ELSE IF b = <<>> THEN 1
  ELSE IF Head(a) < Head(b) THEN -1
  ELSE IF Head(a) > Head(b) THEN 1
  ELSE LexCmp(Tail(a), Tail(b))

\* The order of two strings by code point.
CodePointCmp(a, b) == LexCmp(a, b)

-----------------------------------------------------------------------------
(* Text: decimal and hexadecimal digits, UTF-8 *)

HexDigit(n) == IF n < 10 THEN 48 + n ELSE 87 + n

RECURSIVE HexOfBytes(_)
HexOfBytes(bs) ==
  IF bs = <<>> THEN <<>>
  ELSE <<HexDigit(Head(bs) \div 16), HexDigit(Head(bs) % 16)>> \o HexOfBytes(Tail(bs))

\* Number.prototype.toString of a non-negative integer, in a template string.
RECURSIVE DecimalOf(_)
DecimalOf(n) ==
  IF n < 10 THEN <<48 + n>> ELSE DecimalOf(n \div 10) \o <<48 + (n % 10)>>

\* UTF-8 of one code point below U+10000.
Utf8OfCodePoint(c) ==
  IF c < 128 THEN <<c>>
  ELSE IF c < 2048 THEN <<192 + (c \div 64), 128 + (c % 64)>>
  ELSE <<224 + (c \div 4096), 128 + ((c \div 64) % 64), 128 + (c % 64)>>

RECURSIVE Utf8Encode(_)
Utf8Encode(s) ==
  IF s = <<>> THEN <<>> ELSE Utf8OfCodePoint(Head(s)) \o Utf8Encode(Tail(s))

\* createHash('sha256')...digest('hex'): a 24-bit polynomial digest stands in
\* for SHA-256 (six hex digits instead of 64).  The inputs hashed in this
\* module have pairwise distinct digests, as SHA-256 is taken to have.
RECURSIVE Digest24(_, _)
Digest24(bytes, h) ==
  IF bytes = <<>> THEN h
  ELSE Digest24(Tail(bytes), (h * 127 + Head(bytes) + 1) % 16777213)

Sha256Hex(bytes) ==
  LET h == Digest24(bytes, Len(bytes) + 1)
  IN HexOfBytes(<<h \div 65536, (h \div 256) % 256, h % 256>>)

-----------------------------------------------------------------------------
(* String.prototype.localeCompare, as ECMA-402 and the ICU root collation    *)
(* define it for the letters used here: canonically equivalent strings       *)
(* compare equal, letters compare first without regard to case or accent,    *)
(* then by accent, then by case with lower case first.                       *)

\* Canonical decomposition (NFD) of precomposed a-acute, U+00E1.
RECURSIVE Nfd(_)
Nfd(s) ==
  IF s = <<>> THEN <<>>
  ELSE (IF Head(s) = 225 THEN <<97, 769>> ELSE <<Head(s)>>) \o Nfd(Tail(s))

\* The collation element of a code point: primary, secondary, tertiary weight
\* (0: ignorable at that level).
CollationElement(c) ==
  IF c >= 97 /\ c <= 122 THEN [p |-> 100 + (c - 96), s |-> 1, t |-> 1]
  ELSE IF c >= 65 /\ c <= 90 THEN [p |-> 100 + (c - 64), s |-> 1, t |-> 2]
  ELSE IF c = 769 THEN [p |-> 0, s |-> 2, t |-> 1]
  ELSE IF c >= 48 /\ c <= 57 THEN [p |-> 50 + (c - 48), s |-> 1, t |-> 1]
  ELSE IF c < 128 THEN [p |-> 1 + (c % 48), s |-> 1, t |-> 1]
  ELSE [p |-> 1000 + c, s |-> 1, t |-> 1]

RECURSIVE CollationKey(_, _)
CollationKey(s, level) ==
  IF s = <<>> THEN <<>>
  ELSE LET ce == CollationElement(Head(s))
           w  == IF level = 1 THEN ce.p ELSE IF level = 2 THEN ce.s ELSE ce.t
       IN (IF w = 0 THEN <<>> ELSE <<w>>) \o CollationKey(Tail(s), level)

localeCompare(a, b) ==
  LET x  == Nfd(a)
      y  == Nfd(b)
      c1 == LexCmp(CollationKey(x, 1), CollationKey(y, 1))
      c2 == LexCmp(CollationKey(x, 2), CollationKey(y, 2))
      c3 == LexCmp(CollationKey(x, 3), CollationKey(y, 3))
  IN IF c1 # 0 THEN c1 ELSE IF c2 # 0 THEN c2 ELSE c3

-----------------------------------------------------------------------------
(* The tail of uploadZipAsFileset: duplicates, sort, canonical string, id *)

\* Array.prototype.sort with (a, b) => a.path.localeCompare(b.path): stable.
RECURSIVE InsertSorted(_, _)
InsertSorted(e, sorted) ==
  IF sorted = <<>> THEN <<e>>
  ELSE IF localeCompare(Head(sorted).path, e.path) <= 0
       THEN <<Head(sorted)>> \o InsertSorted(e, Tail(sorted))
       ELSE <<e>> \o sorted

RECURSIVE SortByPath(_)
SortByPath(es) ==
  IF es = <<>> THEN <<>>
  ELSE InsertSorted(es[Len(es)], SortByPath(SubSeq(es, 1, Len(es) - 1)))

\* `${e.path} sha256:${e.sha256} ${e.size}\n`
CanonicalLine(e) ==
  e.path \o <<32, 115, 104, 97, 50, 53, 54, 58>> \o e.sha256
         \o <<32>> \o DecimalOf(e.size) \o <<10>>

RECURSIVE CanonicalString(_)
CanonicalString(es) ==
  IF es = <<>> THEN <<>> ELSE CanonicalLine(Head(es)) \o CanonicalString(Tail(es))

\* createHash('sha256').update('v1 ').update(canonical, 'utf8').digest('hex')
FilesetIdOf(canonical) == Sha256Hex(<<118, 49, 32>> \o Utf8Encode(canonical))

\* "Duplicate path: <p> (last wins)"
DuplicateWarning(norm) == <<"Duplicate path", norm>>

AddFinalEntryMutant(st, norm, r) ==
  LET e == [path |-> norm, sha256 |-> r.sha256, size |-> r.size]
  IN IF norm \in DOMAIN st.seenPaths
     THEN [finalEntries |-> st.finalEntries,
           seenPaths    |-> st.seenPaths,
           warnings     |-> Append(st.warnings, DuplicateWarning(norm))]
     ELSE [finalEntries |-> Append(st.finalEntries, e),
           seenPaths    |-> st.seenPaths @@ (norm :> Len(st.finalEntries)),
           warnings     |-> st.warnings]

\* One pass of the loop body after r is known (duplicate paths: last wins).
\* st is [finalEntries, seenPaths, warnings]; the result is the same record.
AddFinalEntry(st, norm, r) ==
  LET e == [path |-> norm, sha256 |-> r.sha256, size |-> r.size]
  IN IF norm \in DOMAIN st.seenPaths
     THEN [finalEntries |-> [st.finalEntries EXCEPT ![st.seenPaths[norm] + 1] = e],
           seenPaths    |-> st.seenPaths,
           warnings     |-> Append(st.warnings, DuplicateWarning(norm))]
     ELSE [finalEntries |-> Append(st.finalEntries, e),
           seenPaths    |-> st.seenPaths @@ (norm :> Len(st.finalEntries)),
           warnings     |-> st.warnings]

\* The manifest object of lines 265-277, from the unsorted finalEntries.
BuildManifest(entries, warnings) ==
  LET sorted == SortByPath(entries)
  IN [schema     |-> "fileset.v1",
      fileset_id |-> FilesetIdOf(CanonicalString(sorted)),
      file_count |-> Len(sorted),
      total_bytes |-> SumSizes(sorted),
      files      |-> sorted,
      warnings   |-> warnings]


-----------------------------------------------------------------------------
(* The file system under the store root, as the calls of node:fs/promises   *)
(* see it.  A path is a string; a file is a name bound to an inode; an      *)
(* inode's content is a sequence of cells, so that a value written over a   *)
(* longer one leaves the longer one's tail.  writeFile is open (create or   *)
(* truncate), write, close: three calls, other tasks run in between.        *)

StrObjects  == <<111, 98, 106, 101, 99, 116, 115>>
StrFilesets == <<102, 105, 108, 101, 115, 101, 116, 115>>
StrRefs     == <<114, 101, 102, 115>>
StrTmp      == <<116, 109, 112>>
StrDotJson  == <<46, 106, 115, 111, 110>>
StrDotTmp   == <<46, 116, 109, 112>>
StrDotBrtmp == <<46, 98, 114, 116, 109, 112>>
StrCasobj   == <<99, 97, 115, 111, 98, 106, 45>>
StrLatest   == <<108, 97, 116, 101, 115, 116>>
Slash == 47

\* path.join of relative parts that hold no '.', '..' or empty segment.
Join2(a, b) == a \o <<Slash>> \o b
Join3(a, b, c) == a \o <<Slash>> \o b \o <<Slash>> \o c

\* String.prototype.slice(0, n) and slice(n).
SliceTo(str, n) == SubSeq(str, 1, Min(n, Len(str)))
SliceFrom(str, n) == SubSeq(str, n + 1, Len(str))

\* The directory part of a path ('' when it has none).
Dirname(p) ==
  LET slashes == {k \in 1..Len(p) : p[k] = Slash}
  IN IF slashes = {} THEN <<>>
     ELSE SubSeq(p, 1, (CHOOSE k \in slashes : \A j \in slashes : j <= k) - 1)

\* A directory and its ancestors: what mkdir(dir, {recursive: true}) creates.
Ancestors(dir) ==
  ({dir} \cup {SubSeq(dir, 1, k - 1) : k \in {j \in 1..Len(dir) : dir[j] = Slash}}) \ {<<>>}

objPath(sha256hex) == Join3(StrObjects, SliceTo(sha256hex, 2), SliceFrom(sha256hex, 2))
filesetPath(filesetId) ==
  Join3(StrFilesets, SliceTo(filesetId, 2), SliceFrom(filesetId, 2) \o StrDotJson)
refPath(name) == Join2(StrRefs, name)

\* The cells a value occupies in a file: n cells for a value of length n.
Cells(v, n) == [c \in 1..n |-> [val |-> v, part |-> c, of |-> n]]

\* A file content that is exactly one value, written whole.
IsWhole(content) ==
  /\ content # <<>>
  /\ content = Cells(content[1].val, content[1].of)

FsOk(fs) == [fs |-> fs, err |-> None]
FsErr(fs, code) == [fs |-> fs, err |-> Some(code)]

FsExists(fs, p) == p \in DOMAIN fs.names

FsMkdirP(fs, dir) == [fs EXCEPT !.dirs = @ \cup Ancestors(dir)]

FsRemoveName(names, p) == [q \in DOMAIN names \ {p} |-> names[q]]

\* unlink(p)
FsUnlink(fs, p) ==
  IF ~FsExists(fs, p) THEN FsErr(fs, "ENOENT")
  ELSE FsOk([fs EXCEPT !.names = FsRemoveName(@, p)])

FsRenameMutant(fs, from, to) ==
  IF ~FsExists(fs, from) \/ Dirname(to) \notin fs.dirs THEN FsErr(fs, "ENOENT")
  ELSE FsOk([fs EXCEPT !.names = (to :> fs.names[from]) @@ @])

\* rename(from, to): the destination name is replaced in one step.
FsRename(fs, from, to) ==
  IF ~FsExists(fs, from) \/ Dirname(to) \notin fs.dirs THEN FsErr(fs, "ENOENT")
  ELSE IF to \in fs.dirs THEN FsErr(fs, "EISDIR")
  ELSE FsOk([fs EXCEPT !.names =
               (to :> fs.names[from]) @@ FsRemoveName(@, from)])

\* open(p, flags) for writing; ino names the inode a creation would make.
\* The result carries the inode the handle writes to.
FsOpenWrite(fs, p, exclusive, ino) ==
  IF Dirname(p) \notin fs.dirs THEN [fs |-> fs, err |-> Some("ENOENT"), fd |-> None]
  ELSE IF p \in fs.dirs THEN [fs |-> fs, err |-> Some("EISDIR"), fd |-> None]
  ELSE IF FsExists(fs, p)
       THEN IF exclusive THEN [fs |-> fs, err |-> Some("EEXIST"), fd |-> None]
            ELSE [fs |-> [fs EXCEPT !.data[fs.names[p]] = <<>>],
                  err |-> None, fd |-> Some(fs.names[p])]
       ELSE [fs |-> [fs EXCEPT !.names = @ @@ (p :> ino),
                               !.data = @ @@ (ino :> <<>>)],
             err |-> None, fd |-> Some(ino)]

\* write(handle, cells) at position 0.
FsWriteAt0(fs, ino, cells) ==
  [fs EXCEPT !.data[ino] = cells \o SubSeq(@, Len(cells) + 1, Len(@))]

\* readFile(p, 'utf8'): the content, or ENOENT.
FsReadFile(fs, p) ==
  IF FsExists(fs, p) THEN [err |-> None, content |-> fs.data[fs.names[p]]]
  ELSE [err |-> Some("ENOENT"), content |-> <<>>]

-----------------------------------------------------------------------------
(* CasStore: readers *)

\* loadFilesetManifest: JSON.parse throws on an empty, cut or overwritten
\* text, and the catch turns that into null.
loadFilesetManifest(fs, filesetId) ==
  LET r == FsReadFile(fs, filesetPath(filesetId))
  IN IF r.err # None \/ ~IsWhole(r.content) THEN None ELSE Some(r.content[1].val)

\* readRef: the trimmed text of the file, '' for an empty file.
readRef(fs, name) ==
  LET r == FsReadFile(fs, refPath(name))
  IN IF r.err # None THEN None
     ELSE IF r.content = <<>> THEN Some(<<>>)
     ELSE Some(r.content[1].val)

\* The content the stream of openObjectStream delivers (createReadStream
\* opens the file later: a missing file is the stream's error, here None).
objectStreamContent(fs, sha256hex) ==
  LET r == FsReadFile(fs, objPath(sha256hex))
  IN IF r.err # None THEN None ELSE Some(r.content)

-----------------------------------------------------------------------------
(* Bytes: little-endian fields, bit operations, CRC-32 *)

\* A 32-bit field stays the four bytes it is read from (least significant
\* first); a 16-bit field is a number.
U16Bytes(n) == <<n % 256, n \div 256>>
U32Bytes(n) == <<n % 256, (n \div 256) % 256, (n \div 65536) % 256, n \div 16777216>>

\* buf.readUInt16LE(off), buf.readUInt32LE(off), off counted from 0.
u16(buf, off) == buf[off + 1] + 256 * buf[off + 2]
u32(buf, off) == SubSeq(buf, off + 1, off + 4)

\* Number(...) or BigInt(...) of a 32-bit or 64-bit field that counts bytes:
\* no upload of this model reaches SizeCeiling bytes, and every larger value
\* acts as SizeCeiling does.
SizeCeiling == 1000000
ToNumber(f) ==
  IF \E k \in 4..Len(f) : f[k] > 0 THEN SizeCeiling
  ELSE Min(SizeCeiling, f[1] + 256 * f[2] + 65536 * f[3])
u64(buf, off) == SubSeq(buf, off + 1, off + 8)

AllOnes32 == <<255, 255, 255, 255>>

\* The bits of a byte, least significant first, and back.
BitsOfByte(b) == [k \in 1..8 |-> (b \div (2 ^ (k - 1))) % 2]
RECURSIVE ByteOfBits(_)
ByteOfBits(bits) ==
  IF bits = <<>> THEN 0 ELSE Head(bits) + 2 * ByteOfBits(Tail(bits))

RECURSIVE BitsOfBytes(_)
BitsOfBytes(bs) ==
  IF bs = <<>> THEN <<>> ELSE BitsOfByte(Head(bs)) \o BitsOfBytes(Tail(bs))
BytesOfBits32(w) == [k \in 1..4 |-> ByteOfBits(SubSeq(w, 8 * k - 7, 8 * k))]

\* a ^ b and a >>> n on 32-bit words given as bits, least significant first.
XorBits(a, b) == [k \in DOMAIN a |-> (a[k] + b[k]) % 2]
ShiftRightBits(a, n) == SubSeq(a, n + 1, Len(a)) \o [k \in 1..n |-> 0]

Ones32 == [k \in 1..32 |-> 1]
\* 0xEDB88320
CrcPolynomial == BitsOfBytes(<<32, 131, 184, 237>>)

\* CRC32_TABLE[i] (at index i + 1): eight rounds of  c = (c & 1) ? (0xEDB88320 ^ (c >>> 1)) : (c >>> 1).
RECURSIVE CrcRounds(_, _)
CrcRounds(c, k) ==
  IF k = 0 THEN c
  ELSE CrcRounds(IF c[1] = 1 THEN XorBits(CrcPolynomial, ShiftRightBits(c, 1))
                 ELSE ShiftRightBits(c, 1), k - 1)
CRC32_TABLE ==
  SubSeq([i \in 1..256 |-> SubSeq(CrcRounds(BitsOfByte(i - 1) \o [k \in 1..24 |-> 0], 8), 1, 32)],
         1, 256)

\* One round of the loop of crc32Update: CRC32_TABLE[(c ^ b) & 0xFF] ^ (c >>> 8).
CrcStep(c, b) ==
  SubSeq(XorBits(CRC32_TABLE[ByteOfBits(SubSeq(XorBits(c, BitsOfByte(b) \o [k \in 1..24 |-> 0]), 1, 8)) + 1],
                 ShiftRightBits(c, 8)),
         1, 32)

\* The loop of crc32Update over buf, on the complemented register.
RECURSIVE CrcLoop(_, _)
CrcLoop(crc, buf) ==
  IF buf = <<>> THEN crc
  ELSE CHOOSE r \in {CrcLoop(CrcStep(c, Head(buf)), Tail(buf)) : c \in {crc}} : TRUE

\* crc32Update(crc, buf), crc and the result as four bytes.
crc32Update(crc, buf) ==
  BytesOfBits32(XorBits(CrcLoop(XorBits(BitsOfBytes(crc), Ones32), buf), Ones32))

-----------------------------------------------------------------------------
(* zlib.createInflateRaw(), on the DEFLATE streams this module builds:      *)
(* stored blocks (BTYPE 00): one header byte, LEN, NLEN = ~LEN, LEN bytes.  *)
(* Input after the final block is left unread.                              *)

\* A raw DEFLATE stream of one final stored block.
DeflateStored(raw) ==
  <<1>> \o U16Bytes(Len(raw)) \o U16Bytes(65535 - Len(raw)) \o raw

\* [status, out]: "done" with the output once the final block is complete,
\* "more" when the input ends before that, "error" on invalid data.
RECURSIVE InflateRaw(_)
InflateRaw(input) ==
  IF Len(input) < 1 THEN [status |-> "more", out |-> <<>>]
  ELSE IF (Head(input) \div 2) % 4 # 0 THEN [status |-> "error", out |-> <<>>]
  ELSE IF Len(input) < 5 THEN [status |-> "more", out |-> <<>>]
  ELSE IF u16(input, 1) + u16(input, 3) # 65535 THEN [status |-> "error", out |-> <<>>]
  ELSE IF Len(input) < 5 + u16(input, 1) THEN [status |-> "more", out |-> <<>>]
  ELSE LET data == SubSeq(input, 6, 5 + u16(input, 1))
           rest == InflateRaw(SubSeq(input, 6 + u16(input, 1), Len(input)))
       IN IF Head(input) % 2 = 1 THEN [status |-> "done", out |-> data]
          ELSE [status |-> rest.status, out |-> data \o rest.out]

-----------------------------------------------------------------------------
(* ZIP records, as the stream reader and the Central Directory reader lay   *)
(* them out, and the uploads of SpecIngest built from them.                 *)

LFH_SIG  == <<80, 75, 3, 4>>
CDH_SIG  == <<80, 75, 1, 2>>
EOCD_SIG == <<80, 75, 5, 6>>
DD_SIG   == <<80, 75, 7, 8>>
Z64_LOC_SIG  == <<80, 75, 6, 7>>
Z64_EOCD_SIG == <<80, 75, 6, 6>>

\* flags & 0x08 (data descriptor) and flags & (1 << 11) (UTF-8 names)
HasDataDescriptor(flags) == (flags \div 8) % 2 = 1
HasUtf8Flag(flags) == (flags \div 2048) % 2 = 1

\* An entry of an upload: e.name (bytes), e.flags, e.method, e.raw (bytes).
EntryData(e) == IF e.method = 8 THEN DeflateStored(e.raw) ELSE e.raw
EntryCrc(e) == crc32Update(<<0, 0, 0, 0>>, e.raw)

\* The local file header (30 bytes and the name), the data and, with the
\* data-descriptor flag, zeroed header fields and the descriptor after the data.
LocalRecord(e) ==
  LET dd == HasDataDescriptor(e.flags)
      sizes == IF dd THEN <<0, 0, 0, 0>> \o <<0, 0, 0, 0>> \o <<0, 0, 0, 0>>
               ELSE EntryCrc(e) \o U32Bytes(Len(EntryData(e))) \o U32Bytes(Len(e.raw))
  IN LFH_SIG \o U16Bytes(20) \o U16Bytes(e.flags) \o U16Bytes(e.method)
       \o <<0, 0, 0, 0>> \o sizes \o U16Bytes(Len(e.name)) \o U16Bytes(0)
       \o e.name \o EntryData(e)
       \o (IF dd THEN DD_SIG \o EntryCrc(e) \o U32Bytes(Len(EntryData(e)))
                        \o U32Bytes(Len(e.raw))
           ELSE <<>>)

\* The Central Directory record (46 bytes and the name) of an entry whose
\* local header is at offset off.
CentralRecord(e, off) ==
  CDH_SIG \o U16Bytes(20) \o U16Bytes(20) \o U16Bytes(e.flags) \o U16Bytes(e.method)
    \o <<0, 0, 0, 0>> \o EntryCrc(e) \o U32Bytes(Len(EntryData(e))) \o U32Bytes(Len(e.raw))
    \o U16Bytes(Len(e.name)) \o U16Bytes(0) \o U16Bytes(0) \o U16Bytes(0) \o U16Bytes(0)
    \o <<0, 0, 0, 0>> \o U32Bytes(off) \o e.name

RECURSIVE LocalRecords(_)
LocalRecords(es) ==
  IF es = <<>> THEN <<>> ELSE LocalRecord(Head(es)) \o LocalRecords(Tail(es))

RECURSIVE CentralRecords(_, _)
CentralRecords(es, off) ==
  IF es = <<>> THEN <<>>
  ELSE CentralRecord(Head(es), off)
         \o CentralRecords(Tail(es), off + Len(LocalRecord(Head(es))))

\* The end-of-central-directory record, 22 bytes.
EndRecord(n, cdSize, cdOff) ==
  EOCD_SIG \o U16Bytes(0) \o U16Bytes(0) \o U16Bytes(n) \o U16Bytes(n)
    \o U32Bytes(cdSize) \o U32Bytes(cdOff) \o U16Bytes(0)

\* A well-formed archive of the entries es.
ZipOf(es) ==
  LET locals == LocalRecords(es)
      cd     == CentralRecords(es, 0)
  IN locals \o cd \o EndRecord(Len(es), Len(cd), Len(locals))

\* A local record whose header carries the given crc-32 and size fields (12
\* bytes) and the given extra block, before the entry's data.
LocalRecordWith(e, fields, extra) ==
  LFH_SIG \o U16Bytes(20) \o U16Bytes(e.flags) \o U16Bytes(e.method)
    \o <<0, 0, 0, 0>> \o fields \o U16Bytes(Len(e.name)) \o U16Bytes(Len(extra))
    \o e.name \o extra \o EntryData(e)

\* The archive of the entries es whose local records are the bytes locals.
ZipAround(locals, es) ==
  LET cd == CentralRecords(es, 0)
  IN locals \o cd \o EndRecord(Len(es), Len(cd), Len(locals))

\* An archive whose Central Directory is written apart from its local records:
\* cds[k].e gives the fields of the k-th record and cds[k].at the local record
\* its offset points to.
RECURSIVE CentralList(_, _)
CentralList(es, cds) ==
  IF cds = <<>> THEN <<>>
  ELSE CentralRecord(Head(cds).e, Len(LocalRecords(SubSeq(es, 1, Head(cds).at - 1))))
         \o CentralList(es, Tail(cds))

ZipWith(es, cds) ==
  LET locals == LocalRecords(es)
      cd     == CentralList(es, cds)
  IN locals \o cd \o EndRecord(Len(cds), Len(cd), Len(locals))

-----------------------------------------------------------------------------
(* Names: decodeName and normalizeZipPath *)

ReplacementChar == 65533

IsContinuation(b) == b >= 128 /\ b < 192

\* Buffer.prototype.toString('utf8') for sequences of up to three bytes; an
\* ill-formed byte decodes to U+FFFD.
RECURSIVE Utf8Decode(_)
Utf8Decode(bs) ==
  IF bs = <<>> THEN <<>>
  ELSE IF bs[1] < 128 THEN <<bs[1]>> \o Utf8Decode(Tail(bs))
  ELSE IF bs[1] >= 194 /\ bs[1] < 224 /\ Len(bs) >= 2 /\ IsContinuation(bs[2])
       THEN <<(bs[1] - 192) * 64 + (bs[2] - 128)>> \o Utf8Decode(SubSeq(bs, 3, Len(bs)))
  ELSE IF bs[1] >= 224 /\ bs[1] < 240 /\ Len(bs) >= 3
          /\ IsContinuation(bs[2]) /\ IsContinuation(bs[3])
          /\ (bs[1] - 224) * 4096 + (bs[2] - 128) * 64 + (bs[3] - 128) >= 2048
       THEN <<(bs[1] - 224) * 4096 + (bs[2] - 128) * 64 + (bs[3] - 128)>>
              \o Utf8Decode(SubSeq(bs, 4, Len(bs)))
  ELSE <<ReplacementChar>> \o Utf8Decode(Tail(bs))

\* new TextDecoder('shift_jis', { fatal: true }).decode: the single-byte part
\* of the encoding (bytes up to 0x80 and the half-width katakana 0xA1-0xDF).
\* Double-byte sequences need the JIS X 0208 index, which this module does
\* not carry; no upload of this module has one.  None: the decoder throws.
RECURSIVE ShiftJisDecode(_)
ShiftJisDecode(bs) ==
  IF bs = <<>> THEN Some(<<>>)
  ELSE LET rest == ShiftJisDecode(Tail(bs))
           c == IF bs[1] <= 128 THEN Some(bs[1])
                ELSE IF bs[1] >= 161 /\ bs[1] <= 223 THEN Some(65377 + bs[1] - 161)
                ELSE None
       IN IF c = None \/ rest = None THEN None ELSE Some(c \o rest[1])

\* The first extra field with the given id and at least minSz bytes of data:
\* the loop shared by parseUnicodePath, parseExtraZip64 and parseZip64Extra.
RECURSIVE FindExtra(_, _, _, _)
FindExtra(extra, off, id, minSz) ==
  IF off + 4 > Len(extra) THEN None
  ELSE LET sz == u16(extra, off + 2)
       IN IF off + 4 + sz > Len(extra) THEN None
          ELSE IF u16(extra, off) = id /\ sz >= minSz
               THEN Some([off |-> off + 4, sz |-> sz])
          ELSE FindExtra(extra, off + 4 + sz, id, minSz)

\* parseUnicodePath: the 0x7075 field's name bytes, None for null.
parseUnicodePath(extra) ==
  LET f == FindExtra(extra, 0, 28789, 5)
  IN IF f = None THEN None
     ELSE IF extra[f[1].off + 1] # 1 THEN None
     ELSE Some(SubSeq(extra, f[1].off + 6, f[1].off + f[1].sz))

decodeName(nameBytes, flags, extra) ==
  LET upath == parseUnicodePath(extra)
      sjis  == ShiftJisDecode(nameBytes)
  IN IF HasUtf8Flag(flags) THEN Utf8Decode(nameBytes)
     ELSE IF upath # None THEN Utf8Decode(upath[1])
     ELSE IF sjis # None THEN sjis[1]
     ELSE nameBytes

\* parseExtraZip64: the 64-bit fields of the 0x0001 field, each optional.
\* readBigUInt64LE past the end of the buffer throws.
parseExtraZip64(extra, wantU, wantC, wantOff) ==
  LET f  == FindExtra(extra, 0, 1, 0)
      no == [err |-> None, usize |-> None, csize |-> None, offset |-> None]
  IN IF f = None THEN no
     ELSE LET pU == f[1].off
              pC == pU + (IF wantU THEN 8 ELSE 0)
              pO == pC + (IF wantC THEN 8 ELSE 0)
          IN IF pO + (IF wantOff THEN 8 ELSE 0) > Len(extra)
             THEN [no EXCEPT !.err = Some("ERR_OUT_OF_RANGE")]
             ELSE [err    |-> None,
                   usize  |-> IF wantU THEN Some(u64(extra, pU)) ELSE None,
                   csize  |-> IF wantC THEN Some(u64(extra, pC)) ELSE None,
                   offset |-> IF wantOff THEN Some(u64(extra, pO)) ELSE None]

\* parseZip64Extra of the stream reader: the same loop, without the offset.
parseZip64Extra(extra, wantC, wantU) == parseExtraZip64(extra, wantU, wantC, FALSE)

\* p.split('/')
RECURSIVE SplitSlash(_, _)
SplitSlash(p, part) ==
  IF p = <<>> THEN <<part>>
  ELSE IF Head(p) = Slash THEN <<part>> \o SplitSlash(Tail(p), <<>>)
  ELSE SplitSlash(Tail(p), Append(part, Head(p)))

\* while (p.startsWith('./')) p = p.slice(2)
RECURSIVE StripDotSlash(_)
StripDotSlash(p) ==
  IF Len(p) >= 2 /\ p[1] = 46 /\ p[2] = Slash
  THEN StripDotSlash(SubSeq(p, 3, Len(p))) ELSE p

\* out.join('/')
RECURSIVE JoinSlash(_)
JoinSlash(parts) ==
  IF parts = <<>> THEN <<>>
  ELSE IF Len(parts) = 1 THEN parts[1]
  ELSE parts[1] \o <<Slash>> \o JoinSlash(Tail(parts))

\* The parts the loop of lines 85-89 pushes to out.
KeptPartMutant(part) == part # <<>>
KeptPart(part) == part # <<>> /\ part # <<46>>

\* normalizeZipPath: [err, path], err the message thrown.
normalizeZipPath(p0) ==
  LET p1 == [k \in DOMAIN p0 |-> IF p0[k] = 92 THEN Slash ELSE p0[k]]
      p2 == StripDotSlash(p1)
      parts == SplitSlash(p2, <<>>)
      out == SelectSeq(parts, KeptPart)
  IN IF \E k \in DOMAIN p0 : p0[k] = 0
     THEN [err |-> Some("Invalid filename (NUL)"), path |-> <<>>]
     ELSE IF p2 # <<>> /\ p2[1] = Slash
     THEN [err |-> Some("Absolute paths not allowed"), path |-> <<>>]
     ELSE IF \E k \in DOMAIN parts : parts[k] = <<46, 46>>
     THEN [err |-> Some("Parent path not allowed"), path |-> <<>>]
     ELSE [err |-> None, path |-> JoinSlash(out)]

-----------------------------------------------------------------------------
(* readCentralDirectory and processEntryFromSpool, on the spooled bytes *)

\* fh.read(Buffer.alloc(len), 0, len, pos): the bytes of the file from pos,
\* zeros where the file has ended.
ReadAt(file, pos, len) ==
  [k \in 1..len |-> IF pos + k <= Len(file) THEN file[pos + k] ELSE 0]

\* buf.subarray(from, to): clamped to the buffer.
Subarray(buf, from, to) == SubSeq(buf, Min(from, Len(buf)) + 1, Min(to, Len(buf)))

\* The loop  while (p + 46 <= cdBuf.length)  of readCentralDirectory.
RECURSIVE ParseCentral(_, _, _)
ParseCentral(cdBuf, p, entries) ==
  IF p + 46 > Len(cdBuf) \/ u32(cdBuf, p) # CDH_SIG
  THEN [err |-> None, entries |-> entries]
  ELSE LET flags    == u16(cdBuf, p + 8)
           csize32e == u32(cdBuf, p + 20)
           usize32e == u32(cdBuf, p + 24)
           nameLen  == u16(cdBuf, p + 28)
           extraLen == u16(cdBuf, p + 30)
           commentLen == u16(cdBuf, p + 32)
           lhoff32  == u32(cdBuf, p + 42)
           nameBytes == Subarray(cdBuf, p + 46, p + 46 + nameLen)
           extra    == Subarray(cdBuf, p + 46 + nameLen, p + 46 + nameLen + extraLen)
           wantU    == usize32e = AllOnes32
           wantC    == csize32e = AllOnes32
           wantO    == lhoff32 = AllOnes32
           z64      == parseExtraZip64(extra, wantU, wantC, wantO)
           name     == decodeName(nameBytes, flags, extra)
           e == [fileName |-> name,
                 flags    |-> flags,
                 method   |-> u16(cdBuf, p + 10),
                 crc32    |-> u32(cdBuf, p + 16),
                 compressedSize    |-> ToNumber(IF wantC THEN z64.csize[1] ELSE csize32e),
                 uncompressedSize  |-> ToNumber(IF wantU THEN z64.usize[1] ELSE usize32e),
                 localHeaderOffset |-> ToNumber(IF wantO THEN z64.offset[1] ELSE lhoff32),
                 isDirectory |-> name # <<>> /\ name[Len(name)] = Slash]
       IN IF (wantU \/ wantC \/ wantO) /\ z64.err # None
          THEN [err |-> z64.err, entries |-> entries]
          ELSE IF wantU /\ z64.usize = None
          THEN [err |-> Some("Zip64 usize missing in central"), entries |-> entries]
          ELSE IF wantC /\ z64.csize = None
          THEN [err |-> Some("Zip64 csize missing in central"), entries |-> entries]
          ELSE IF wantO /\ z64.offset = None
          THEN [err |-> Some("Zip64 offset missing in central"), entries |-> entries]
          ELSE ParseCentral(cdBuf, p + 46 + nameLen + extraLen + commentLen,
                            Append(entries, e))

Zip64Warning == <<"Zip64 needed but Zip64 locator not found; using 32-bit CD fields", <<>>>>

\* readCentralDirectory(zipPath) on a spool file holding the bytes file:
\* [err, entries, warnings], err the message thrown.
readCentralDirectory(file) ==
  LET size  == Len(file)
      start == IF size > 65558 THEN size - 65558 ELSE 0
      tail  == ReadAt(file, start, size - start)
      found == {i \in 0..(Len(tail) - 22) : u32(tail, i) = EOCD_SIG}
      fail(msg) == [err |-> Some(msg), entries |-> <<>>, warnings |-> <<>>]
  IN IF found = {} THEN fail("EOCD not found")
     ELSE
       LET eocdOff == CHOOSE i \in found : \A j \in found : j <= i
           eocd == Subarray(tail, eocdOff, Len(tail))
           cdSize32 == u32(eocd, 12)
           cdOff32 == u32(eocd, 16)
           needsZip64 == cdSize32 = AllOnes32 \/ cdOff32 = AllOnes32 \/ u16(eocd, 10) = 65535
           locPos == eocdOff - 20
           hasLoc == locPos >= 0 /\ u32(tail, locPos) = Z64_LOC_SIG
           zbuf == ReadAt(file, ToNumber(u64(tail, locPos + 8)), 56)
           useZ64 == needsZip64 /\ hasLoc
           cdSize == IF useZ64 THEN ToNumber(u64(zbuf, 40)) ELSE ToNumber(cdSize32)
           cdOff == IF useZ64 THEN ToNumber(u64(zbuf, 48)) ELSE ToNumber(cdOff32)
           parsed == ParseCentral(ReadAt(file, cdOff, cdSize), 0, <<>>)
           warnings == IF needsZip64 /\ ~hasLoc THEN <<Zip64Warning>> ELSE <<>>
       IN IF useZ64 /\ u32(zbuf, 0) # Z64_EOCD_SIG THEN fail("Zip64 EOCD not found")
          ELSE [err |-> parsed.err, entries |-> parsed.entries, warnings |-> warnings]

\* processEntryFromSpool up to the raw stream it hands to processRawToCas:
\* [err, raw].  createReadStream throws ERR_OUT_OF_RANGE when start > end;
\* the stream ends at the end of the file.
SpoolEntryRaw(file, localHeaderOffset, method, compressedSize) ==
  LET h == ReadAt(file, localHeaderOffset, 30)
      dataStart == localHeaderOffset + 30 + u16(h, 26) + u16(h, 28)
      start == dataStart
      end == dataStart + compressedSize - 1
      data == Subarray(file, start, end + 1)
      inflated == InflateRaw(data)
      fail(msg) == [err |-> Some(msg), raw |-> <<>>]
  IN IF u32(h, 0) # LFH_SIG THEN fail("Local header signature mismatch")
     ELSE IF start > end THEN fail("ERR_OUT_OF_RANGE")
     ELSE IF method = 0 THEN [err |-> None, raw |-> data]
     ELSE IF method = 8
          THEN IF inflated.status = "done" THEN [err |-> None, raw |-> inflated.out]
               ELSE IF inflated.status = "more" THEN fail("unexpected end of file")
               ELSE fail("invalid block type")
     ELSE fail("Unsupported method in fallback")

-----------------------------------------------------------------------------
(* SpecManifest *)

MaxCdEntries == 2

\* The two ingests (SpecStore), the two archives compared (SpecManifest).
Runs == {1, 2}

\* Processed entry records {sha256, size} of the raw contents "1" and "22".
ResultOne == [sha256 |-> Sha256Hex(<<49>>), size |-> 1]
ResultTwo == [sha256 |-> Sha256Hex(<<50, 50>>), size |-> 2]

\* The (normalized path, result) pairs a Central Directory entry may give:
\* the paths B, a, a-acute precomposed (U+00E1), a + combining acute (U+0301).
CdPairs == {[norm |-> <<66>>, r |-> ResultOne],
            [norm |-> <<97>>, r |-> ResultOne],
            [norm |-> <<97>>, r |-> ResultTwo],
            [norm |-> <<225>>, r |-> ResultOne],
            [norm |-> <<97, 769>>, r |-> ResultTwo]}

\* Longer lists, in which a path comes back after another one: every list of
\* MaxDupEntries entries over the paths B and a.
MaxDupEntries == 3
DupPairs == {e \in CdPairs : e.norm \in {<<66>>, <<97>>}}

CdLists ==
  UNION {[1..n -> CdPairs] : n \in 0..MaxCdEntries}
    \cup [1..MaxDupEntries -> DupPairs]

\* The store before ensureStoreLayout's directories hold anything, no ingest
\* running.
EmptyFs == [names |-> <<>>, data |-> <<>>,
            dirs |-> {StrObjects, StrFilesets, StrRefs}]

StoreIdle ==
  /\ fsNames = EmptyFs.names
  /\ fsData = EmptyFs.data
  /\ fsDirs = EmptyFs.dirs
  /\ pc = [i \in Runs |-> "idle"]
  /\ updateRef = [i \in Runs |-> None]
  /\ tmpPath = [i \in Runs |-> <<>>]
  /\ fd = [i \in Runs |-> None]
  /\ err = [i \in Runs |-> None]
  /\ wroteManifest = [i \in Runs |-> FALSE]
  /\ changedRef = [i \in Runs |-> FALSE]

\* normalizeZipPath is not under test.
NormalizeIdle ==
  /\ nzName = <<>>
  /\ nzCalls = 0
  /\ nzResult = <<>>

\* No request is served.
ServeIdle ==
  /\ request = <<>>
  /\ response = <<>>

\* No queue is under test.
QueueIdle ==
  /\ cqChunks = <<>>
  /\ cqLength = 0
  /\ cqConsumed = 0
  /\ cqOut = <<>>
  /\ cqLast = <<>>

\* No ingest by bytes: the state of these variables in the other specifications.
IngestIdle ==
  /\ archiveId = "knownSizes"
  /\ keepSpool = FALSE
  /\ spoolFile = "removed"
  /\ passLen = 0
  /\ awaiting = {}
  /\ sinkReady = {}
  /\ body = <<>>
  /\ maxZipBytes = 0
  /\ limits = <<>>
  /\ sent = 0
  /\ seen = 0
  /\ spoolLen = 0
  /\ reqState = "ended"
  /\ wsState = "finished"
  /\ sharedErr = None
  /\ qHead = 0
  /\ qLen = 0
  /\ qEnded = TRUE
  /\ qDiscarding = FALSE
  /\ waiters = <<>>
  /\ runq = <<>>
  /\ need = 0
  /\ pumpTick = FALSE
  /\ pumpState = "off"
  /\ hdr = None
  /\ remaining = 0
  /\ bodyBuf = <<>>
  /\ processed = <<>>
  /\ entryCount = 0
  /\ totalBytes = 0
  /\ cdEntries = <<>>
  /\ result = None
  /\ cdIdx = 0

InitManifest ==
  /\ mCd \in [Runs -> CdLists]
  /\ mIdx = [i \in Runs |-> 0]
  /\ finalEntries = [i \in Runs |-> <<>>]
  /\ seenPaths = [i \in Runs |-> <<>>]
  /\ mWarnings = [i \in Runs |-> <<>>]
  /\ mManifest = [i \in Runs |-> None]
  /\ mRun = 1
  /\ StoreIdle
  /\ IngestIdle
  /\ NormalizeIdle
  /\ ServeIdle
  /\ QueueIdle

\* One iteration of `for (const e of cd.entries)`, lines 254-262.
ReconcileEntry ==
  /\ mRun \in Runs
  /\ mIdx[mRun] < Len(mCd[mRun])
  /\ LET e  == mCd[mRun][mIdx[mRun] + 1]
         st == AddFinalEntry([finalEntries |-> finalEntries[mRun],
                              seenPaths |-> seenPaths[mRun],
                              warnings |-> mWarnings[mRun]], e.norm, e.r)
     IN /\ finalEntries' = [finalEntries EXCEPT ![mRun] = st.finalEntries]
        /\ seenPaths' = [seenPaths EXCEPT ![mRun] = st.seenPaths]
        /\ mWarnings' = [mWarnings EXCEPT ![mRun] = st.warnings]
  /\ mIdx' = [mIdx EXCEPT ![mRun] = @ + 1]
  /\ UNCHANGED <<mCd, mManifest, mRun, fsVars, procVars, ingVars, auxVars>>

\* Lines 265-277: sort, canonical string, fileset id, manifest.
Finalize ==
  /\ mRun \in Runs
  /\ mIdx[mRun] = Len(mCd[mRun])
  /\ mManifest' = [mManifest EXCEPT ![mRun] =
                     Some(BuildManifest(finalEntries[mRun], mWarnings[mRun]))]
  /\ mRun' = mRun + 1
  /\ UNCHANGED <<mCd, mIdx, finalEntries, seenPaths, mWarnings, fsVars, procVars, ingVars, auxVars>>

NextManifest == ReconcileEntry \/ Finalize

SpecManifest == InitManifest /\ [][NextManifest]_vars

-----------------------------------------------------------------------------
(* SpecStore: two ingests against one store.  What an ingest reads from its *)
(* archive is given (mCd: the entries in the order they are processed, each *)
(* with the result its pipeline will compute); every call into the file     *)
(* system is one step.                                                      *)

MaxStoreEntries == 2

\* Two files, and the second name again with another content.
StorePairs == {[norm |-> <<97>>, r |-> ResultOne],
               [norm |-> <<66>>, r |-> ResultTwo]}

StoreLists == UNION {[1..n -> StorePairs] : n \in 0..MaxStoreEntries}

\* update_ref: none, 'latest', or 'sub/x' (no directory refs/sub exists).
StrSubX == <<115, 117, 98, Slash, 120>>
RefNames == {StrLatest, StrSubX}
RefChoices == {None} \cup {Some(n) : n \in RefNames}

Fs == [names |-> fsNames, data |-> fsData, dirs |-> fsDirs]

HasPrefix(p, pre) == Len(p) >= Len(pre) /\ SubSeq(p, 1, Len(pre)) = pre
HasSuffix(p, suf) == Len(p) >= Len(suf) /\ SubSeq(p, Len(p) - Len(suf) + 1, Len(p)) = suf

\* The published manifests and refs of a file system, with their contents.
ManifestView(fs) ==
  LET ps == {p \in DOMAIN fs.names :
               HasPrefix(p, StrFilesets \o <<Slash>>) /\ HasSuffix(p, StrDotJson)}
  IN [p \in ps |-> fs.data[fs.names[p]]]
RefView(fs) ==
  LET ps == {p \in DOMAIN fs.names :
               HasPrefix(p, StrRefs \o <<Slash>>) /\ ~HasSuffix(p, StrDotTmp)}
  IN [p \in ps |-> fs.data[fs.names[p]]]

\* Ingest i's file-system call has led to fs2.
FsStep(i, fs2) ==
  /\ fsNames' = fs2.names
  /\ fsData' = fs2.data
  /\ fsDirs' = fs2.dirs
  /\ wroteManifest' = [wroteManifest EXCEPT ![i] = @ \/ ManifestView(fs2) # ManifestView(Fs)]
  /\ changedRef' = [changedRef EXCEPT ![i] = @ \/ RefView(fs2) # RefView(Fs)]

Goto(i, label) == pc' = [pc EXCEPT ![i] = label]
Throw(i, where, code) ==
  /\ pc' = [pc EXCEPT ![i] = "threw"]
  /\ err' = [err EXCEPT ![i] = Some([op |-> where, code |-> code])]

CurrentEntry(i) == mCd[i][mIdx[i] + 1]

\* makeTempPath: tmp/casobj-<time>-<random>.brtmp, never the same twice.
makeTempPath(i, k) ==
  Join2(StrTmp, StrCasobj \o DecimalOf(i) \o <<45>> \o DecimalOf(k) \o StrDotBrtmp)

InitStore ==
  /\ mCd \in [Runs -> StoreLists]
  /\ mIdx = [i \in Runs |-> 0]
  /\ finalEntries = [i \in Runs |-> <<>>]
  /\ seenPaths = [i \in Runs |-> <<>>]
  /\ mWarnings = [i \in Runs |-> <<>>]
  /\ mManifest = [i \in Runs |-> None]
  /\ mRun = 3
  /\ fsNames = EmptyFs.names
  /\ fsData = EmptyFs.data
  /\ fsDirs = EmptyFs.dirs
  /\ pc = [i \in Runs |-> "loop"]
  /\ updateRef \in [Runs -> RefChoices]
  /\ tmpPath = [i \in Runs |-> <<>>]
  /\ fd = [i \in Runs |-> None]
  /\ err = [i \in Runs |-> None]
  /\ wroteManifest = [i \in Runs |-> FALSE]
  /\ changedRef = [i \in Runs |-> FALSE]
  /\ IngestIdle
  /\ NormalizeIdle
  /\ ServeIdle
  /\ QueueIdle

\* processRawToCas, lines 101-103: the temp path, and the sink created with
\* flags 'wx'.
EntryStart(i) ==
  /\ pc[i] = "loop"
  /\ mIdx[i] < Len(mCd[i])
  /\ LET tmp == makeTempPath(i, mIdx[i])
         o   == FsOpenWrite(FsMkdirP(Fs, StrTmp), tmp, TRUE, <<i, "obj", mIdx[i]>>)
     IN /\ FsStep(i, o.fs)
        /\ tmpPath' = [tmpPath EXCEPT ![i] = tmp]
        /\ fd' = [fd EXCEPT ![i] = o.fd]
        /\ IF o.err = None THEN Goto(i, "pipeline") /\ UNCHANGED err
           ELSE Throw(i, "processRawToCas", o.err[1])
  /\ UNCHANGED <<manVars, updateRef, ingVars, auxVars>>

\* The pipeline of line 119 ends well: the temp file holds the Brotli form of
\* the raw bytes, whose SHA-256 is the entry's sha256.
EntryPipelineDone(i) ==
  /\ pc[i] = "pipeline"
  /\ FsStep(i, FsWriteAt0(Fs, fd[i][1], Cells(CurrentEntry(i).r.sha256, 1)))
  /\ Goto(i, "commit_stat")
  /\ UNCHANGED <<manVars, updateRef, tmpPath, fd, err, ingVars, auxVars>>

\* The pipeline rejects (File too large, an inflate error, a cut input).
EntryPipelineFails(i) ==
  /\ pc[i] = "pipeline"
  /\ Throw(i, "processRawToCas", "pipeline")
  /\ UNCHANGED <<manVars, fsVars, updateRef, tmpPath, fd, wroteManifest, changedRef, ingVars, auxVars>>

\* Any throw of uploadZipAsFileset between two entries: a header error, a cap,
\* a size or CRC mismatch, a path that does not normalize.
IngestThrows(i) ==
  /\ pc[i] = "loop"
  /\ Throw(i, "uploadZipAsFileset", "ingest")
  /\ UNCHANGED <<manVars, fsVars, updateRef, tmpPath, fd, wroteManifest, changedRef, ingVars, auxVars>>

\* Whether stat(finalPath) of line 45 resolves.
ObjectFoundMutant(fs, final) == TRUE
ObjectFound(fs, final) == FsExists(fs, final)

\* commitTempObject, lines 42-45: ensureObjectDir, then stat(finalPath).
CommitStat(i) ==
  /\ pc[i] = "commit_stat"
  /\ LET final == objPath(CurrentEntry(i).r.sha256)
     IN /\ FsStep(i, FsMkdirP(Fs, Dirname(final)))
        /\ Goto(i, IF ObjectFound(Fs, final) THEN "commit_unlink" ELSE "commit_rename")
  /\ UNCHANGED <<manVars, updateRef, tmpPath, fd, err, ingVars, auxVars>>

\* The entry's result enters finalEntries (lines 254-262) and the loop goes on.
EntryAdded(i) ==
  LET e  == CurrentEntry(i)
      st == AddFinalEntry([finalEntries |-> finalEntries[i],
                           seenPaths |-> seenPaths[i],
                           warnings |-> mWarnings[i]], e.norm, e.r)
  IN /\ finalEntries' = [finalEntries EXCEPT ![i] = st.finalEntries]
     /\ seenPaths' = [seenPaths EXCEPT ![i] = st.seenPaths]
     /\ mWarnings' = [mWarnings EXCEPT ![i] = st.warnings]
     /\ mIdx' = [mIdx EXCEPT ![i] = @ + 1]
     /\ UNCHANGED <<mCd, mManifest, mRun>>

\* The path commitTempObject unlinks when the object exists already.
DiscardedPathMutant(tmp, final) == final
DiscardedPath(tmp, final) == tmp

\* commitTempObject, lines 46-47: the object exists, the temp file is dropped.
\* A failing unlink is swallowed by the catch and the rename is tried.
CommitUnlink(i) ==
  /\ pc[i] = "commit_unlink"
  /\ LET final == objPath(CurrentEntry(i).r.sha256)
         u == FsUnlink(Fs, DiscardedPath(tmpPath[i], final))
     IN /\ FsStep(i, u.fs)
        /\ IF u.err = None
           THEN Goto(i, "loop") /\ EntryAdded(i)
           ELSE Goto(i, "commit_rename") /\ UNCHANGED manVars
  /\ UNCHANGED <<updateRef, tmpPath, fd, err, ingVars, auxVars>>

\* commitTempObject, lines 52-60: rename, and on EEXIST drop the temp file.
CommitRename(i) ==
  /\ pc[i] = "commit_rename"
  /\ LET final == objPath(CurrentEntry(i).r.sha256)
         r == FsRename(Fs, tmpPath[i], final)
         u == FsUnlink(Fs, tmpPath[i])
     IN IF r.err = None
        THEN FsStep(i, r.fs) /\ Goto(i, "loop") /\ EntryAdded(i) /\ UNCHANGED err
        ELSE IF r.err = Some("EEXIST")
        THEN /\ FsStep(i, u.fs)
             /\ IF u.err = None
                THEN Goto(i, "loop") /\ EntryAdded(i) /\ UNCHANGED err
                ELSE Throw(i, "commitTempObject", u.err[1]) /\ UNCHANGED manVars
        ELSE FsStep(i, r.fs) /\ Throw(i, "commitTempObject", r.err[1]) /\ UNCHANGED manVars
  /\ UNCHANGED <<updateRef, tmpPath, fd, ingVars, auxVars>>

\* Lines 265-279 and storeFilesetManifest, lines 64-67: the manifest is built,
\* the shard directory made, and writeFile opens <path>.tmp.
StoreManifestOpen(i) ==
  /\ pc[i] = "loop"
  /\ mIdx[i] = Len(mCd[i])
  /\ LET m   == BuildManifest(finalEntries[i], mWarnings[i])
         p   == filesetPath(m.fileset_id)
         o   == FsOpenWrite(FsMkdirP(Fs, Dirname(p)), p \o StrDotTmp, FALSE, <<i, "man", 0>>)
     IN /\ mManifest' = [mManifest EXCEPT ![i] = Some(m)]
        /\ FsStep(i, o.fs)
        /\ fd' = [fd EXCEPT ![i] = o.fd]
        /\ IF o.err = None THEN Goto(i, "store_write") /\ UNCHANGED err
           ELSE Throw(i, "storeFilesetManifest", o.err[1])
  /\ UNCHANGED <<mCd, mIdx, finalEntries, seenPaths, mWarnings, mRun, updateRef, tmpPath, ingVars, auxVars>>

\* The cells JSON.stringify(manifest) takes: more text with more warnings.
ManifestCells(m) == Cells(m, 1 + Len(m.warnings))

\* storeFilesetManifest, line 67: writeFile writes the text and closes.
StoreManifestWrite(i) ==
  /\ pc[i] = "store_write"
  /\ FsStep(i, FsWriteAt0(Fs, fd[i][1], ManifestCells(mManifest[i][1])))
  /\ Goto(i, "store_rename")
  /\ UNCHANGED <<manVars, updateRef, tmpPath, fd, err, ingVars, auxVars>>

\* What the ingest does after storeFilesetManifest: line 280.
AfterManifest(i) == IF updateRef[i] # None THEN "ref_open" ELSE "done"

\* storeFilesetManifest, line 68: rename(tmp, p).
StoreManifestRename(i) ==
  /\ pc[i] = "store_rename"
  /\ LET p == filesetPath(mManifest[i][1].fileset_id)
         r == FsRename(Fs, p \o StrDotTmp, p)
     IN /\ FsStep(i, r.fs)
        /\ IF r.err = None THEN Goto(i, AfterManifest(i)) /\ UNCHANGED err
           ELSE Throw(i, "storeFilesetManifest", r.err[1])
  /\ UNCHANGED <<manVars, updateRef, tmpPath, fd, ingVars, auxVars>>

\* writeRef, lines 82-84: writeFile opens refs/<name>.tmp.
WriteRefOpen(i) ==
  /\ pc[i] = "ref_open"
  /\ LET p == refPath(updateRef[i][1])
         o == FsOpenWrite(Fs, p \o StrDotTmp, FALSE, <<i, "ref", 0>>)
     IN /\ FsStep(i, o.fs)
        /\ fd' = [fd EXCEPT ![i] = o.fd]
        /\ IF o.err = None THEN Goto(i, "ref_write") /\ UNCHANGED err
           ELSE Throw(i, "writeRef", o.err[1])
  /\ UNCHANGED <<manVars, updateRef, tmpPath, ingVars, auxVars>>

\* writeRef, line 84: writeFile writes the fileset id and closes.
WriteRefWrite(i) ==
  /\ pc[i] = "ref_write"
  /\ FsStep(i, FsWriteAt0(Fs, fd[i][1], Cells(mManifest[i][1].fileset_id, 1)))
  /\ Goto(i, "ref_rename")
  /\ UNCHANGED <<manVars, updateRef, tmpPath, fd, err, ingVars, auxVars>>

\* writeRef, line 85: rename(tmp, p).
WriteRefRename(i) ==
  /\ pc[i] = "ref_rename"
  /\ LET p == refPath(updateRef[i][1])
         r == FsRename(Fs, p \o StrDotTmp, p)
     IN /\ FsStep(i, r.fs)
        /\ IF r.err = None THEN Goto(i, "done") /\ UNCHANGED err
           ELSE Throw(i, "writeRef", r.err[1])
  /\ UNCHANGED <<manVars, updateRef, tmpPath, fd, ingVars, auxVars>>

NextStore ==
  \E i \in Runs :
    \/ EntryStart(i)
    \/ EntryPipelineDone(i)
    \/ EntryPipelineFails(i)
    \/ IngestThrows(i)
    \/ CommitStat(i)
    \/ CommitUnlink(i)
    \/ CommitRename(i)
    \/ StoreManifestOpen(i)
    \/ StoreManifestWrite(i)
    \/ StoreManifestRename(i)
    \/ WriteRefOpen(i)
    \/ WriteRefWrite(i)
    \/ WriteRefRename(i)

SpecStore == InitStore /\ [][NextStore]_vars

-----------------------------------------------------------------------------
(* SpecIngest: one ingest (ingest 1), byte by byte.                         *)
(*                                                                          *)
(* Tasks run to their next await; a continuation made ready by wake() or by *)
(* an await that did not have to wait runs before any event of the request, *)
(* of the spool writer or of a file operation, in the order it was made     *)
(* ready (runq).  The next _read of streamUnknown's Readable is called      *)
(* after the ready continuations (pumpTick).                                *)

\* The chunk sizes 'data' events deliver: ChunkSmall or ChunkLen bytes, or all
\* that is left.
ChunkSmall == 8
ChunkLen == 16

\* The limits POST /filesets passes.  maxTotalBytes is 2 * 1024^3 there, one
\* more than the largest integer of the model checker, which stands for it:
\* no total of this module comes near either.
maxEntries == 8000
maxFileBytes == 524288000
maxTotalBytes == 2147483647

ServerLimits ==
  [maxEntries |-> maxEntries, maxFileBytes |-> maxFileBytes,
   maxTotalBytes |-> maxTotalBytes]

\* Limits a caller may pass instead: each lowers one of the three to a value
\* the uploads below reach.
SmallEntryCaps == {1, 2}
SmallFileCaps == {1, 2, 3}
SmallTotalCaps == {2, 3}
SmallLimits ==
  {[ServerLimits EXCEPT !.maxEntries = n] : n \in SmallEntryCaps}
    \cup {[ServerLimits EXCEPT !.maxFileBytes = n] : n \in SmallFileCaps}
    \cup {[ServerLimits EXCEPT !.maxTotalBytes = n] : n \in SmallTotalCaps}

\* The size Readable passes to read(size): the default highWaterMark.
HighWaterMark == 16384

NameA    == <<97>>
NameB    == <<66>>
NameABTxt == <<97, Slash, 98, 46, 116, 120, 116>>
NameS    == <<115>>
NameE    == <<101>>
NameD    == <<100, Slash>>
NameN    == <<110>>

FileA == [name |-> NameA, flags |-> 0, method |-> 0, raw |-> <<49>>]
FileB == [name |-> NameB, flags |-> 0, method |-> 8, raw |-> <<50, 50>>]
FileS == [name |-> NameS, flags |-> 8, method |-> 0, raw |-> <<65, 66, 67>>]
DirD  == [name |-> NameD, flags |-> 0, method |-> 0, raw |-> <<>>]
FileN == [name |-> NameN, flags |-> 8, method |-> 0, raw |-> LFH_SIG]

\* Extra blocks: a field that is not the ZIP64 one (tag 0x5455, one byte), and
\* a ZIP64 field (tag 0x0001) that gives 9 for both sizes.
ExtraOther == <<85, 84, 1, 0, 0>>
ExtraZip64 == <<1, 0, 16, 0>> \o <<9, 0, 0, 0, 0, 0, 0, 0>> \o <<9, 0, 0, 0, 0, 0, 0, 0>>

\* The uploads: two entries with sizes in their headers (STORE, DEFLATE); one
\* DEFLATE entry with a data descriptor; one STORE entry with a data
\* descriptor; the same with no data; a STORE entry with a data descriptor
\* before an entry with known sizes; a directory and a file; a local entry the
\* Central Directory does not list; Central Directories that give another
\* CRC-32 or another size than the data has, for a streamed entry and for a
\* deferred one; local headers whose compressed size, uncompressed size or
\* both are 0xFFFFFFFF without a ZIP64 extra field; a local header with plain
\* sizes and a ZIP64 extra field; a STORE entry with a data descriptor whose
\* data is the four bytes of a local file header signature; a local header
\* that gives another CRC-32 than the data has; a Central Directory whose
\* local header offset is 1 where the header is at 0; a STORE entry with a
\* data descriptor whose local header has an extra block that its Central
\* Directory record has not.
Uploads ==
  [knownSizes |-> ZipOf(<<FileA, FileB>>),
   deflateDescriptor |->
     ZipOf(<<[name |-> NameABTxt, flags |-> 8, method |-> 8, raw |-> <<65, 66, 67>>]>>),
   storeDescriptor |-> ZipOf(<<FileS>>),
   emptyStoreDescriptor |->
     ZipOf(<<[name |-> NameE, flags |-> 8, method |-> 0, raw |-> <<>>]>>),
   deferredThenKnown |-> ZipOf(<<FileS, FileA>>),
   directoryAndFile |-> ZipOf(<<DirD, FileA>>),
   notInDirectory |-> ZipWith(<<FileA, FileB>>, <<[e |-> FileB, at |-> 2]>>),
   crcMismatch |->
     ZipWith(<<FileA>>, <<[e |-> [FileA EXCEPT !.raw = <<50>>], at |-> 1]>>),
   sizeMismatch |->
     ZipWith(<<FileA>>, <<[e |-> [FileA EXCEPT !.raw = <<49, 49>>], at |-> 1]>>),
   deferredCrcMismatch |->
     ZipWith(<<FileS>>, <<[e |-> [FileS EXCEPT !.raw = <<65, 66, 68>>], at |-> 1]>>),
   csizeSentinel |->
     ZipAround(LocalRecordWith(FileA, EntryCrc(FileA) \o AllOnes32 \o U32Bytes(1), ExtraOther),
               <<FileA>>),
   usizeSentinel |->
     ZipAround(LocalRecordWith(FileA, EntryCrc(FileA) \o U32Bytes(1) \o AllOnes32, <<>>),
               <<FileA>>),
   bothSentinels |->
     ZipAround(LocalRecordWith(FileA, EntryCrc(FileA) \o AllOnes32 \o AllOnes32, <<>>),
               <<FileA>>),
   unusedZip64Extra |->
     ZipAround(LocalRecordWith(FileA, EntryCrc(FileA) \o U32Bytes(1) \o U32Bytes(1), ExtraZip64),
               <<FileA>>),
   storedNestedZip |-> ZipOf(<<FileN>>),
   localCrcMismatch |->
     ZipAround(LocalRecordWith(FileA, EntryCrc([FileA EXCEPT !.raw = <<50>>])
                                        \o U32Bytes(1) \o U32Bytes(1), <<>>),
               <<FileA>>),
   wrongCdOffset |->
     LocalRecord(FileA) \o CentralRecord(FileA, 1)
       \o EndRecord(1, Len(CentralRecord(FileA, 1)), Len(LocalRecord(FileA))),
   deferredWithExtra |->
     ZipAround(LocalRecordWith(FileS, [k \in 1..12 |-> 0], ExtraOther)
                 \o DD_SIG \o EntryCrc(FileS) \o U32Bytes(3) \o U32Bytes(3),
               <<FileS>>)]

\* The uploads made with lowered limits too.
LimitedUploads == {"knownSizes", "storeDescriptor", "deferredThenKnown"}
LimitChoices(id) ==
  {ServerLimits} \cup (IF id \in LimitedUploads THEN SmallLimits ELSE {})

\* The caps on the upload's length: its length and, with the server's limits,
\* one byte less.
ZipCapChoices(id, lim) ==
  {Len(Uploads[id])} \cup (IF lim = ServerLimits THEN {Len(Uploads[id]) - 1} ELSE {})

\* The bytes the spool file holds once written out.
Spool == SubSeq(body, 1, spoolLen)

\* The bytes the queue holds: chunks are appended whole and read in order.
QueueBytes(n) == SubSeq(body, qHead + 1, qHead + n)

Quiet == runq = <<>> /\ ~pumpTick

\* A wake() that drops the waiters without making them ready.
WokenMutant(ws) == <<>>

\* wake(): every waiter's continuation is made ready, in order.
Woken(ws) == [k \in 1..Len(ws) |-> <<ws[k], "check">>]

\* What the spool writer is after destroy(err): finished(ws) rejects.
DestroyedWsStateMutant == "finished"
DestroyedWsState == "errored"

\* The test of the counting transform, line 109.
FileTooLargeMutant(rawSize, lim) == FALSE
FileTooLarge(rawSize, lim) == rawSize > lim.maxFileBytes

\* A digest taken before the last byte has passed the tap.
StreamResultMutant(raw) ==
  [sha256 |-> Sha256Hex(SubSeq(raw, 1, Len(raw) - 1)), size |-> Len(raw),
   crc32 |-> crc32Update(<<0, 0, 0, 0>>, raw)]

\* {sha256, size, crc32} of processRawToCas for the raw bytes of an entry.
StreamResult(raw) ==
  [sha256 |-> Sha256Hex(raw), size |-> Len(raw), crc32 |-> crc32Update(<<0, 0, 0, 0>>, raw)]

\* commitTempObject, with no other task between its calls.
commitTempObject(fs, tmp, sha256hex) ==
  LET final == objPath(sha256hex)
      fs1 == FsMkdirP(fs, Dirname(final))
      u   == FsUnlink(fs1, DiscardedPath(tmp, final))
      r   == FsRename(fs1, tmp, final)
  IN IF FsExists(fs1, final) /\ u.err = None THEN u
     ELSE IF r.err = Some("EEXIST") THEN FsUnlink(fs1, tmp)
     ELSE r

DeferredWarning(offset) == <<"Deferred STORE+DD at offset", DecimalOf(offset)>>

\* The two sinks of teeToSpool: the spool writer and the pass-through.
Sinks == {"ws", "pass"}

\* Both write() calls answer true.
AllReady == [snk \in Sinks |-> TRUE]

\* The sinks that answered false: !ok1, !ok2 of lines 31 and 35.
NotReady(ok) == {snk \in Sinks : ~ok[snk]}

\* resumeIfReady, lines 27-30, with the once('drain') listeners that are left
\* registered: pending is their number.
ResumeReadyMutant(left) == TRUE
ResumeReady(left) == Cardinality(left) <= 0

\* KEEP_SPOOL is set or not for one upload, and not set for the others.
KeepSpoolChoices(id) == IF id = "deflateDescriptor" THEN BOOLEAN ELSE {FALSE}

\* The sinks of one upload may answer false to write(); those of the others
\* always answer true.
SinkChoices(id) ==
  IF id = "directoryAndFile" THEN {{AllReady}, [Sinks -> BOOLEAN]} ELSE {{AllReady}}

InitIngest ==
  /\ mCd = [i \in Runs |-> <<>>]
  /\ mIdx = [i \in Runs |-> 0]
  /\ finalEntries = [i \in Runs |-> <<>>]
  /\ seenPaths = [i \in Runs |-> <<>>]
  /\ mWarnings = [i \in Runs |-> <<>>]
  /\ mManifest = [i \in Runs |-> None]
  /\ mRun = 3
  /\ fsNames = EmptyFs.names
  /\ fsData = EmptyFs.data
  /\ fsDirs = EmptyFs.dirs
  /\ pc = [i \in Runs |-> IF i = 1 THEN "nh_sig" ELSE "idle"]
  /\ updateRef \in {u \in [Runs -> RefChoices] : u[2] = None}
  /\ tmpPath = [i \in Runs |-> <<>>]
  /\ fd = [i \in Runs |-> None]
  /\ err = [i \in Runs |-> None]
  /\ wroteManifest = [i \in Runs |-> FALSE]
  /\ changedRef = [i \in Runs |-> FALSE]
  /\ archiveId \in DOMAIN Uploads
  /\ body = Uploads[archiveId]
  /\ limits \in LimitChoices(archiveId)
  /\ maxZipBytes \in ZipCapChoices(archiveId, limits)
  /\ keepSpool \in KeepSpoolChoices(archiveId)
  /\ spoolFile = "present"
  /\ passLen = 0
  /\ awaiting = {}
  /\ sinkReady \in SinkChoices(archiveId)
  /\ NormalizeIdle
  /\ ServeIdle
  /\ QueueIdle
  /\ sent = 0
  /\ seen = 0
  /\ spoolLen = 0
  /\ reqState = "flowing"
  /\ wsState = "open"
  /\ sharedErr = None
  /\ qHead = 0
  /\ qLen = 0
  /\ qEnded = FALSE
  /\ qDiscarding = FALSE
  /\ waiters = <<"main">>
  /\ runq = <<>>
  /\ need = 4
  /\ pumpTick = FALSE
  /\ pumpState = "off"
  /\ hdr = None
  /\ remaining = 0
  /\ bodyBuf = <<>>
  /\ processed = <<>>
  /\ entryCount = 0
  /\ totalBytes = 0
  /\ result = None
  /\ cdEntries = <<>>
  /\ cdIdx = 0

\* What the ingest's own code (the async function, the Readables it made) can
\* change in one run to its next await, as a record; Apply makes it the next
\* state.
Cur ==
  [pc |-> pc[1], err |-> err[1], fs |-> Fs, tmpPath |-> tmpPath[1], fd |-> fd[1],
   warnings |-> mWarnings[1], finalEntries |-> finalEntries[1], seenPaths |-> seenPaths[1],
   qHead |-> qHead, qLen |-> qLen, qDiscarding |-> qDiscarding,
   waiters |-> waiters, runq |-> runq, need |-> need,
   pumpTick |-> pumpTick, pumpState |-> pumpState, hdr |-> hdr,
   remaining |-> remaining, bodyBuf |-> bodyBuf, processed |-> processed,
   entryCount |-> entryCount, totalBytes |-> totalBytes, result |-> result,
   cdEntries |-> cdEntries, cdIdx |-> cdIdx]

Apply(s) ==
  /\ pc' = [pc EXCEPT ![1] = s.pc]
  /\ err' = [err EXCEPT ![1] = s.err]
  /\ FsStep(1, s.fs)
  /\ tmpPath' = [tmpPath EXCEPT ![1] = s.tmpPath]
  /\ fd' = [fd EXCEPT ![1] = s.fd]
  /\ mWarnings' = [mWarnings EXCEPT ![1] = s.warnings]
  /\ finalEntries' = [finalEntries EXCEPT ![1] = s.finalEntries]
  /\ seenPaths' = [seenPaths EXCEPT ![1] = s.seenPaths]
  /\ qHead' = s.qHead
  /\ qLen' = s.qLen
  /\ qDiscarding' = s.qDiscarding
  /\ waiters' = s.waiters
  /\ runq' = s.runq
  /\ need' = s.need
  /\ pumpTick' = s.pumpTick
  /\ pumpState' = s.pumpState
  /\ hdr' = s.hdr
  /\ remaining' = s.remaining
  /\ bodyBuf' = s.bodyBuf
  /\ processed' = s.processed
  /\ entryCount' = s.entryCount
  /\ totalBytes' = s.totalBytes
  /\ result' = s.result
  /\ cdEntries' = s.cdEntries
  /\ cdIdx' = s.cdIdx
  /\ UNCHANGED <<mCd, mIdx, mManifest, mRun, updateRef, teeVars, bpVars, qEnded, auxVars>>

\* One run of the ingest's code, to the state it computes.
Run(next) == \E s \in {next} : Apply(s)

\* The first continuation of runq has run.
Popped == [Cur EXCEPT !.runq = Tail(runq)]

\* throw new Error(code) out of uploadZipAsFileset
ThrowS(s, where, code) ==
  [s EXCEPT !.pc = "threw", !.err = Some([op |-> where, code |-> code])]

\* await q.ensure(n) called by the ingest's code, which goes on at label: the
\* loop's first test is made at the call.
EnsureS(s, n, label) ==
  IF s.qLen >= n
  THEN [s EXCEPT !.pc = label, !.need = n, !.runq = Append(@, <<"main", "cont">>)]
  ELSE IF qEnded THEN ThrowS([s EXCEPT !.need = n], "ensure", "Unexpected EOF")
  ELSE [s EXCEPT !.pc = label, !.need = n, !.waiters = Append(@, "main")]

\* q.read(n) on the state s.
ReadS(s, n) == [s EXCEPT !.qHead = @ + n, !.qLen = @ - n]

\* teeToSpool, the 'data' handler of req (lines 12-40), and the 'data' and
\* 'error' handlers of the queue on pass.
ReqData ==
  /\ reqState = "flowing"
  /\ Quiet
  /\ sent < Len(body)
  /\ \E n \in {ChunkSmall, ChunkLen, Len(body)}, ok \in sinkReady :
       LET k == Min(n, Len(body) - sent)
       IN /\ sent' = sent + k
          /\ seen' = seen + k
          /\ IF seen + k > maxZipBytes
             THEN /\ reqState' = "destroyed"
                  /\ sharedErr' = Some("ZIP too large")
                  /\ wsState' = DestroyedWsState
                  /\ qEnded' = TRUE
                  /\ runq' = Woken(waiters)
                  /\ waiters' = <<>>
                  /\ UNCHANGED <<spoolLen, passLen, awaiting, qLen>>
             ELSE /\ spoolLen' = spoolLen + k
                  /\ passLen' = passLen + k
                  /\ IF qDiscarding THEN UNCHANGED <<qLen, runq, waiters>>
                     ELSE /\ qLen' = qLen + k
                          /\ runq' = Woken(waiters)
                          /\ waiters' = <<>>
                  /\ awaiting' = NotReady(ok)
                  /\ reqState' = IF NotReady(ok) # {} THEN "paused" ELSE reqState
                  /\ UNCHANGED <<sharedErr, wsState, qEnded>>
  /\ UNCHANGED <<manVars, fsVars, procVars, auxVars, archiveId, body, maxZipBytes, limits,
                 keepSpool, spoolFile, sinkReady, qHead, qDiscarding, need, zrVars>>

\* A sink that answered false has written its buffer out and emits 'drain':
\* resumeIfReady, lines 27-30.
SinkDrain(k) ==
  /\ k \in awaiting
  /\ Quiet
  /\ reqState # "destroyed"
  /\ awaiting' = awaiting \ {k}
  /\ reqState' = IF ResumeReady(awaiting \ {k}) /\ reqState = "paused" THEN "flowing"
                 ELSE reqState
  /\ UNCHANGED <<manVars, fsVars, procVars, auxVars, archiveId, body, maxZipBytes, limits, sent, seen,
                 spoolLen, wsState, sharedErr, keepSpool, spoolFile, passLen, sinkReady,
                 qVars, zrVars>>

WsDrain == SinkDrain("ws")

PassDrain == SinkDrain("pass")

\* teeToSpool, the 'end' handler of req (lines 42-45), and the queue's 'end'
\* handler.
ReqEnd ==
  /\ reqState = "flowing"
  /\ Quiet
  /\ sent = Len(body)
  /\ reqState' = "ended"
  /\ wsState' = "ending"
  /\ qEnded' = TRUE
  /\ runq' = Woken(waiters)
  /\ waiters' = <<>>
  /\ UNCHANGED <<manVars, fsVars, procVars, auxVars, archiveId, body, maxZipBytes, limits, sent, seen,
                 spoolLen, sharedErr, bpVars, qHead, qLen, qDiscarding, need, zrVars>>

\* teeToSpool, the 'error' handler of req (lines 47-50): the client is gone
\* before the body has ended, whether req is flowing or paused.  The queue's
\* 'error' handler.
ReqError ==
  /\ reqState \in {"flowing", "paused"}
  /\ Quiet
  /\ reqState' = "destroyed"
  /\ sharedErr' = Some("aborted")
  /\ wsState' = DestroyedWsState
  /\ qEnded' = TRUE
  /\ runq' = Woken(waiters)
  /\ waiters' = <<>>
  /\ UNCHANGED <<manVars, fsVars, procVars, auxVars, archiveId, body, maxZipBytes, limits, sent, seen,
                 spoolLen, bpVars, qHead, qLen, qDiscarding, need, zrVars>>

\* The spool writer has written everything out after end(): finished(ws)
\* resolves.
WsFinish ==
  /\ wsState = "ending"
  /\ Quiet
  /\ wsState' = "finished"
  /\ UNCHANGED <<manVars, fsVars, procVars, auxVars, archiveId, body, maxZipBytes, limits, sent, seen,
                 spoolLen, reqState, sharedErr, bpVars, qVars, zrVars>>

\* Lines 282-286: the spool file is unlinked unless KEEP_SPOOL is set, an
\* error of unlink is ignored, and the result is returned.
UnlinkSpool ==
  /\ pc[1] = "done"
  /\ pc' = [pc EXCEPT ![1] = "returned"]
  /\ IF keepSpool THEN UNCHANGED spoolFile
     ELSE spoolFile' \in {"removed", "unlink_failed"}
  /\ UNCHANGED <<manVars, fsVars, updateRef, tmpPath, fd, err, wroteManifest, changedRef, auxVars,
                 teeVars, keepSpool, passLen, awaiting, sinkReady, qVars, zrVars>>

\* ensure, lines 280-283: a woken waiter of the ingest's code tests again.
EnsureWoken ==
  /\ runq # <<>>
  /\ Head(runq) = <<"main", "check">>
  /\ Run(EnsureS(Popped, need, pc[1]))

\* A consumedTotal that counts the four bytes of a peek.
getConsumedTotalMutant(s) == s.qHead + 4

\* getConsumedTotal(), lines 269-271, on the state s.
getConsumedTotal(s) == s.qHead

\* discardFuture without its setting discarding: the buffer is emptied once.
DiscardFutureMutant(s) ==
  [s EXCEPT !.qLen = 0, !.runq = @ \o Woken(s.waiters), !.waiters = <<>>]

\* discardFuture(), lines 262-267, on the state s.
DiscardFuture(s) ==
  [s EXCEPT !.qDiscarding = TRUE, !.qLen = 0,
            !.runq = @ \o Woken(s.waiters), !.waiters = <<>>]

\* nextHeader, lines 388-400; on null the loop of uploadZipAsFileset breaks
\* (line 181) and awaits spoolDone.
NextHeaderSig ==
  /\ runq # <<>>
  /\ Head(runq) = <<"main", "cont">>
  /\ pc[1] = "nh_sig"
  /\ Run(IF qLen < 4 THEN ThrowS(Popped, "peekU32LE", "Need 4 bytes")
           ELSE IF QueueBytes(4) # LFH_SIG
           THEN [DiscardFuture(Popped) EXCEPT !.pc = "await_spool"]
           ELSE EnsureS([Popped EXCEPT !.hdr =
                           Some([localHeaderOffset |-> getConsumedTotal(Popped)])],
                        30, "nh_fixed"))

\* nextHeader, lines 401-412.
NextHeaderFixed ==
  /\ runq # <<>>
  /\ Head(runq) = <<"main", "cont">>
  /\ pc[1] = "nh_fixed"
  /\ LET h == QueueBytes(30)
         fixed == [localHeaderOffset |-> hdr[1].localHeaderOffset,
                   flags |-> u16(h, 6), method |-> u16(h, 8), crc32 |-> u32(h, 14),
                   csize32 |-> u32(h, 18), usize32 |-> u32(h, 22),
                   nameLen |-> u16(h, 26), extraLen |-> u16(h, 28)]
     IN Run(IF qLen < 30 THEN ThrowS(Popped, "read", "Queue underflow")
              ELSE IF fixed.method # 0 /\ fixed.method # 8
              THEN ThrowS(ReadS(Popped, 30), "nextHeader", "Unsupported compression method")
              ELSE EnsureS([ReadS(Popped, 30) EXCEPT !.hdr = Some(fixed)],
                           fixed.nameLen + fixed.extraLen, "nh_var"))

\* wantC, wantU of lines 416-417: the 32-bit size field is the ZIP64 sentinel.
WantsZip64Mutant(field32) == FALSE
WantsZip64(field32) == field32 = AllOnes32

\* nextHeader, lines 413-437, and the loop of uploadZipAsFileset, lines
\* 180-201, up to processRawToCas's await of makeTempPath.
NextHeaderVar ==
  /\ runq # <<>>
  /\ Head(runq) = <<"main", "cont">>
  /\ pc[1] = "nh_var"
  /\ LET f == hdr[1]
         extra == SubSeq(body, qHead + f.nameLen + 1, qHead + f.nameLen + f.extraLen)
         wantC == WantsZip64(f.csize32)
         wantU == WantsZip64(f.usize32)
         z64 == parseZip64Extra(extra, wantC, wantU)
         csize == IF wantC THEN z64.csize[1] ELSE f.csize32
         usize == IF wantU THEN z64.usize[1] ELSE f.usize32
         h == [localHeaderOffset |-> f.localHeaderOffset,
               fileNameBytes |-> QueueBytes(f.nameLen),
               method |-> f.method, flags |-> f.flags, crc32 |-> f.crc32,
               compressedSize |-> ToNumber(csize),
               uncompressedSize |-> ToNumber(usize),
               zip64Sizes |-> (\E k \in 5..Len(csize) : csize[k] > 0)
                                \/ (\E k \in 5..Len(usize) : usize[k] > 0)]
         s == [ReadS(Popped, f.nameLen + f.extraLen) EXCEPT
                 !.hdr = Some(h), !.entryCount = @ + 1]
     IN Run(IF (f.nameLen > 0 /\ f.nameLen > qLen)
                   \/ (f.extraLen > 0 /\ f.nameLen + f.extraLen > qLen)
              THEN ThrowS(Popped, "read", "Queue underflow")
              ELSE IF (wantC \/ wantU) /\ z64.err # None
              THEN ThrowS(ReadS(Popped, f.nameLen + f.extraLen), "nextHeader", z64.err[1])
              ELSE IF wantC /\ z64.csize = None
              THEN ThrowS(ReadS(Popped, f.nameLen + f.extraLen), "nextHeader", "Zip64 csize missing")
              ELSE IF wantU /\ z64.usize = None
              THEN ThrowS(ReadS(Popped, f.nameLen + f.extraLen), "nextHeader", "Zip64 usize missing")
              ELSE IF s.entryCount > limits.maxEntries
              THEN ThrowS(s, "uploadZipAsFileset", "Too many entries")
              ELSE IF HasDataDescriptor(h.flags) /\ h.method = 0
              THEN EnsureS([s EXCEPT !.warnings =
                              Append(@, DeferredWarning(h.localHeaderOffset))],
                           4, "nh_sig")
              ELSE [s EXCEPT !.pc = "body_start"])

\* processRawToCas, lines 101-119, entered from the streaming loop: the temp
\* file is created (flags 'wx') and the pipeline starts to read its source,
\* zr.streamCompressedKnown (streamExact, lines 329-336) or
\* zr.streamCompressedUnknown (streamUnknown).
BodyStart ==
  /\ pc[1] = "body_start"
  /\ Quiet
  /\ LET h == hdr[1]
         tmp == makeTempPath(1, entryCount)
         o == FsOpenWrite(FsMkdirP(Fs, StrTmp), tmp, TRUE, <<1, "obj", entryCount>>)
         s == [Cur EXCEPT !.fs = o.fs, !.tmpPath = tmp, !.fd = o.fd, !.bodyBuf = <<>>,
                          !.remaining = h.compressedSize]
     IN Run(IF o.err # None THEN ThrowS(s, "processRawToCas", o.err[1])
              ELSE IF HasDataDescriptor(h.flags)
              THEN [s EXCEPT !.pumpState = "on", !.pumpTick = TRUE, !.pc = "pipe_wait"]
              ELSE IF h.compressedSize <= 0 THEN [s EXCEPT !.pc = "pipe_wait"]
              ELSE EnsureS(s, 1, "body_known"))

\* streamExact's read(), lines 333-336, and the next call of read().
StreamExactRead ==
  /\ runq # <<>>
  /\ Head(runq) = <<"main", "cont">>
  /\ pc[1] = "body_known"
  /\ LET take == Min(remaining, qLen)
         s == [ReadS(Popped, take) EXCEPT !.bodyBuf = @ \o QueueBytes(take),
                                          !.remaining = @ - take]
     IN Run(IF s.remaining <= 0 THEN [s EXCEPT !.pc = "pipe_wait"]
              ELSE EnsureS(s, 1, "body_known"))

\* The stored form of an object and its commit, on the file system fs.
StoreObject(fs, ino, tmp, r) ==
  commitTempObject(FsWriteAt0(fs, ino, Cells(r.sha256, 1)), tmp, r.sha256)

\* The pipeline of processRawToCas has ended (lines 119-123), and the loop of
\* uploadZipAsFileset goes on (lines 203-216) to its next await.
PipelineEnd ==
  /\ pc[1] = "pipe_wait"
  /\ Quiet
  /\ LET h == hdr[1]
         usesDD == HasDataDescriptor(h.flags)
         inflated == InflateRaw(bodyBuf)
         raw == IF h.method = 0 THEN bodyBuf ELSE inflated.out
         r == StreamResult(raw)
         c == StoreObject(Fs, fd[1][1], tmpPath[1], r)
         s == [Cur EXCEPT !.bodyBuf = <<>>]
         t == [s EXCEPT !.fs = c.fs, !.totalBytes = @ + r.size, !.result = Some(r)]
     IN /\ h.method = 8 /\ usesDD /\ inflated.status = "more" => pumpState = "eof"
        /\ Run(IF h.method = 8 /\ inflated.status = "more"
                 THEN ThrowS(s, "pipeline", "unexpected end of file")
                 ELSE IF h.method = 8 /\ inflated.status = "error"
                 THEN ThrowS(s, "pipeline", "invalid block type")
                 ELSE IF FileTooLarge(Len(raw), limits)
                 THEN ThrowS(s, "pipeline", "File too large")
                 ELSE IF c.err # None THEN ThrowS(t, "commitTempObject", c.err[1])
                 ELSE IF t.totalBytes > limits.maxTotalBytes
                 THEN ThrowS(t, "uploadZipAsFileset", "Total too large")
                 ELSE IF usesDD THEN EnsureS(t, 12, "dd_first")
                 ELSE IF h.uncompressedSize # 0 /\ h.uncompressedSize # r.size
                 THEN ThrowS(t, "uploadZipAsFileset", "Size mismatch (local header)")
                 ELSE IF h.crc32 # <<0, 0, 0, 0>> /\ h.crc32 # r.crc32
                 THEN ThrowS(t, "uploadZipAsFileset", "CRC mismatch (local header)")
                 ELSE EnsureS([t EXCEPT !.processed = (h.localHeaderOffset :> r) @@ @],
                              4, "nh_sig"))

\* readDataDescriptor, lines 450-455.
DataDescriptorFirst ==
  /\ runq # <<>>
  /\ Head(runq) = <<"main", "cont">>
  /\ pc[1] = "dd_first"
  /\ Run(IF qLen < 4 THEN ThrowS(Popped, "peekU32LE", "Need 4 bytes")
           ELSE EnsureS(ReadS(Popped, IF QueueBytes(4) = DD_SIG THEN 4 ELSE 0),
                        IF hdr[1].zip64Sizes THEN 20 ELSE 12, "dd_rest"))

\* readDataDescriptor, lines 456-468, and lines 212-216 of the loop.
DataDescriptorRest ==
  /\ runq # <<>>
  /\ Head(runq) = <<"main", "cont">>
  /\ pc[1] = "dd_rest"
  /\ LET w == IF hdr[1].zip64Sizes THEN 8 ELSE 4
         b == QueueBytes(4 + 2 * w)
         dd == [crc32 |-> SubSeq(b, 1, 4),
                compressedSize |-> ToNumber(SubSeq(b, 5, 4 + w)),
                uncompressedSize |-> ToNumber(SubSeq(b, 5 + w, 4 + 2 * w))]
         r == result[1]
         s == ReadS(Popped, 4 + 2 * w)
     IN Run(IF qLen < 4 + 2 * w
              THEN ThrowS(ReadS(Popped, IF qLen < 4 THEN 0 ELSE 4), "read", "Queue underflow")
              ELSE IF dd.uncompressedSize # r.size
              THEN ThrowS(s, "uploadZipAsFileset", "Size mismatch (DD)")
              ELSE IF dd.crc32 # r.crc32
              THEN ThrowS(s, "uploadZipAsFileset", "CRC mismatch (DD)")
              ELSE EnsureS([s EXCEPT !.processed = (hdr[1].localHeaderOffset :> r) @@ @],
                           4, "nh_sig"))

\* streamUnknown's read(size), line 349: ensure(1) at the call, or tested
\* again by the woken waiter; on 'Unexpected EOF' the catch pushes null.
StreamUnknownEnsure ==
  /\ pumpState = "on"
  /\ \/ pumpTick /\ runq = <<>>
     \/ runq # <<>> /\ Head(runq) = <<"pump", "check">>
  /\ LET s == [Cur EXCEPT !.pumpTick = FALSE,
                          !.runq = IF runq = <<>> THEN <<>> ELSE Tail(runq)]
     IN Run(IF qLen >= 1 THEN [s EXCEPT !.runq = Append(@, <<"pump", "cont">>)]
              ELSE IF qEnded THEN [s EXCEPT !.pumpState = "eof"]
              ELSE [s EXCEPT !.waiters = Append(@, "pump")])

\* streamUnknown's read(size), lines 350-351; inflate takes the chunk while
\* the entry's pipeline runs, and the Readable will call read() again.
StreamUnknownRead ==
  /\ runq # <<>>
  /\ Head(runq) = <<"pump", "cont">>
  /\ LET take == Min(qLen, HighWaterMark)
     IN Run([ReadS(Popped, take) EXCEPT
                 !.bodyBuf = IF pc[1] = "pipe_wait" THEN @ \o QueueBytes(take) ELSE @,
                 !.pumpTick = TRUE])

\* await spoolDone, line 219.
SpoolDoneResolves ==
  /\ pc[1] = "await_spool"
  /\ Quiet
  /\ wsState = "finished"
  /\ Run([Cur EXCEPT !.pc = "read_cd"])

SpoolDoneRejects ==
  /\ pc[1] = "await_spool"
  /\ Quiet
  /\ wsState = "errored"
  /\ Run(ThrowS(Cur, "spoolDone", sharedErr[1]))

\* Lines 222-226.
ReadCentralDirectory ==
  /\ pc[1] = "read_cd"
  /\ Quiet
  /\ LET cd == readCentralDirectory(Spool)
     IN Run(IF cd.err # None THEN ThrowS(Cur, "readCentralDirectory", cd.err[1])
              ELSE [Cur EXCEPT !.cdEntries = cd.entries, !.cdIdx = 0,
                               !.warnings = @ \o cd.warnings,
                               !.pc = IF cd.entries = <<>> THEN "loop" ELSE "reconcile"])

\* The two comparisons of a processed entry r with its Central Directory entry
\* e, lines 238-239 and 249-250.
SizeDiffers(r, e) == r.size # e.uncompressedSize
CrcDiffersMutant(r, e) == FALSE
CrcDiffers(r, e) == r.crc32 # e.crc32

\* One iteration of  for (const e of cd.entries), lines 228-263, with
\* processEntryFromSpool and processRawToCas when the entry was not streamed.
ReconcileCdEntry ==
  /\ pc[1] = "reconcile"
  /\ Quiet
  /\ LET e == cdEntries[cdIdx + 1]
         norm == normalizeZipPath(e.fileName)
         streamed == e.localHeaderOffset \in DOMAIN processed
         sp == SpoolEntryRaw(Spool, e.localHeaderOffset, e.method, e.compressedSize)
         tmp == makeTempPath(1, entryCount + cdIdx + 1)
         o == FsOpenWrite(FsMkdirP(Fs, StrTmp), tmp, TRUE, <<1, "obj", entryCount + cdIdx + 1>>)
         r == IF streamed THEN processed[e.localHeaderOffset] ELSE StreamResult(sp.raw)
         c == StoreObject(o.fs, o.fd[1], tmp, r)
         s == [Cur EXCEPT !.cdIdx = @ + 1,
                          !.pc = IF cdIdx + 1 = Len(cdEntries) THEN "loop" ELSE "reconcile"]
         \* the pipeline of the fallback has failed: its temp file stays
         f == [Cur EXCEPT !.fs = o.fs, !.tmpPath = tmp]
         t == [s EXCEPT !.fs = c.fs, !.tmpPath = tmp,
                        !.processed = (e.localHeaderOffset :> r) @@ @]
         st == AddFinalEntry([finalEntries |-> finalEntries[1], seenPaths |-> seenPaths[1],
                              warnings |-> mWarnings[1]], norm.path, r)
         added(u) == [u EXCEPT !.finalEntries = st.finalEntries,
                               !.seenPaths = st.seenPaths, !.warnings = st.warnings]
     IN Run(IF e.isDirectory THEN s
              ELSE IF e.method # 0 /\ e.method # 8
              THEN ThrowS(Cur, "uploadZipAsFileset", "Unsupported method in CD")
              ELSE IF norm.err # None THEN ThrowS(Cur, "normalizeZipPath", norm.err[1])
              ELSE IF norm.path = <<>> THEN s
              ELSE IF streamed
              THEN IF SizeDiffers(r, e)
                   THEN ThrowS(Cur, "uploadZipAsFileset", "Size mismatch vs CD")
                   ELSE IF CrcDiffers(r, e)
                   THEN ThrowS(Cur, "uploadZipAsFileset", "CRC mismatch vs CD")
                   ELSE added(s)
              ELSE IF sp.err \in {Some("Local header signature mismatch"),
                                  Some("ERR_OUT_OF_RANGE"),
                                  Some("Unsupported method in fallback")}
              THEN ThrowS(Cur, "processEntryFromSpool", sp.err[1])
              ELSE IF o.err # None THEN ThrowS(Cur, "processRawToCas", o.err[1])
              ELSE IF sp.err # None THEN ThrowS(f, "pipeline", sp.err[1])
              ELSE IF FileTooLarge(Len(sp.raw), limits) THEN ThrowS(f, "pipeline", "File too large")
              ELSE IF c.err # None THEN ThrowS(f, "commitTempObject", c.err[1])
              ELSE IF SizeDiffers(r, e)
              THEN ThrowS(t, "uploadZipAsFileset", "Fallback size mismatch")
              ELSE IF CrcDiffers(r, e)
              THEN ThrowS(t, "uploadZipAsFileset", "Fallback CRC mismatch")
              ELSE added(t))

NextIngest ==
  \/ ReqData
  \/ ReqEnd
  \/ ReqError
  \/ WsDrain
  \/ PassDrain
  \/ WsFinish
  \/ EnsureWoken
  \/ NextHeaderSig
  \/ NextHeaderFixed
  \/ NextHeaderVar
  \/ BodyStart
  \/ StreamExactRead
  \/ PipelineEnd
  \/ DataDescriptorFirst
  \/ DataDescriptorRest
  \/ StreamUnknownEnsure
  \/ StreamUnknownRead
  \/ SpoolDoneResolves
  \/ SpoolDoneRejects
  \/ ReadCentralDirectory
  \/ ReconcileCdEntry
  \/ StoreManifestOpen(1)
  \/ StoreManifestWrite(1)
  \/ StoreManifestRename(1)
  \/ WriteRefOpen(1)
  \/ WriteRefWrite(1)
  \/ WriteRefRename(1)
  \/ UnlinkSpool

SpecIngest == InitIngest /\ [][NextIngest]_vars

\* What the event loop does without the client: ready continuations run, the
\* calls of the file system return, the sinks drain and the spool writer
\* finishes.
ContinuationSteps ==
  \/ WsDrain
  \/ PassDrain
  \/ WsFinish
  \/ EnsureWoken
  \/ NextHeaderSig
  \/ NextHeaderFixed
  \/ NextHeaderVar
  \/ BodyStart
  \/ StreamExactRead
  \/ DataDescriptorFirst
  \/ DataDescriptorRest
  \/ StreamUnknownEnsure
  \/ StreamUnknownRead
  \/ SpoolDoneResolves
  \/ SpoolDoneRejects
  \/ StoreManifestWrite(1)
  \/ StoreManifestRename(1)
  \/ WriteRefOpen(1)
  \/ WriteRefWrite(1)
  \/ WriteRefRename(1)
  \/ UnlinkSpool

\* The steps of the event loop that end a pipeline, read the Central
\* Directory, handle one of its entries or build the manifest.
DigestSteps ==
  \/ PipelineEnd
  \/ ReadCentralDirectory
  \/ ReconcileCdEntry
  \/ StoreManifestOpen(1)

\* The guards of DigestSteps: one of them can be taken.
DigestEnabled ==
  \/ Quiet /\ pc[1] \in {"read_cd", "reconcile"}
  \/ /\ Quiet
     /\ pc[1] = "pipe_wait"
     /\ (/\ hdr[1].method = 8
         /\ HasDataDescriptor(hdr[1].flags)
         /\ InflateRaw(bodyBuf).status = "more") => pumpState = "eof"
  \/ pc[1] = "loop" /\ mIdx[1] = Len(mCd[1])

\* SpecIngest with the event loop going on; the client may stall for ever.
\* The weak fairness of DigestSteps is written out, with the guards in the
\* place of ENABLED <<DigestSteps>>_vars, which would compute every digest
\* of the step.
SpecIngestLive ==
  /\ SpecIngest
  /\ WF_vars(ContinuationSteps)
  /\ []<>(~DigestEnabled) \/ []<><<DigestSteps>>_vars

-----------------------------------------------------------------------------
(* SpecNormalize: normalizeZipPath applied to a file name of the Central     *)
(* Directory (line 232), and again to the path it returned.                 *)

MaxNameLen == 4

\* The characters of the names: a, '.', '/', '\' and NUL.
NameChars == {97, 46, Slash, 92, 0}

\* \windows\path\z.txt
WindowsPath ==
  <<92, 119, 105, 110, 100, 111, 119, 115, 92, 112, 97, 116, 104, 92, 122, 46, 116, 120, 116>>

\* windows/path/z.txt
WindowsPathNormalized ==
  <<119, 105, 110, 100, 111, 119, 115, Slash, 112, 97, 116, 104, Slash, 122, 46, 116, 120, 116>>

FileNames == UNION {[1..n -> NameChars] : n \in 0..MaxNameLen} \cup {WindowsPath}

InitNormalize ==
  /\ mCd = [i \in Runs |-> <<>>]
  /\ mIdx = [i \in Runs |-> 0]
  /\ finalEntries = [i \in Runs |-> <<>>]
  /\ seenPaths = [i \in Runs |-> <<>>]
  /\ mWarnings = [i \in Runs |-> <<>>]
  /\ mManifest = [i \in Runs |-> None]
  /\ mRun = 3
  /\ StoreIdle
  /\ IngestIdle
  /\ ServeIdle
  /\ QueueIdle
  /\ nzName \in FileNames
  /\ nzCalls = 0
  /\ nzResult = <<>>

\* const norm = normalizeZipPath(e.fileName), line 232.
NormalizeName ==
  /\ nzCalls = 0
  /\ nzResult' = <<normalizeZipPath(nzName)>>
  /\ nzCalls' = 1
  /\ UNCHANGED <<manVars, fsVars, procVars, ingVars, nzName, srvVars, cqVars>>

\* normalizeZipPath applied to the path a first call returned.
NormalizeAgain ==
  /\ nzCalls = 1
  /\ nzResult[1].err = None
  /\ nzResult' = Append(nzResult, normalizeZipPath(nzResult[1].path))
  /\ nzCalls' = 2
  /\ UNCHANGED <<manVars, fsVars, procVars, ingVars, nzName, srvVars, cqVars>>

NextNormalize == NormalizeName \/ NormalizeAgain

SpecNormalize == InitNormalize /\ [][NextNormalize]_vars

-----------------------------------------------------------------------------
(* SpecServe: two calls of the request handler of server.ts, each serving   *)
(* one request, over one store.  The handler runs to its first await in one *)
(* step; an upload then goes on with the store's calls of SpecStore, one at *)
(* a time, and the other call's steps come in between.                      *)

\* String.prototype.includes
Includes(str, sub) ==
  \E k \in 0..(Len(str) - Len(sub)) : SubSeq(str, k + 1, k + Len(sub)) = sub

StrAppZip    == <<97, 112, 112, 108, 105, 99, 97, 116, 105, 111, 110, 47, 122, 105, 112>>
StrAppJson   == <<97, 112, 112, 108, 105, 99, 97, 116, 105, 111, 110, 47, 106, 115, 111, 110>>
StrAnyType   == <<42, 47, 42>>
StrTextPlain == <<116, 101, 120, 116, 47, 112, 108, 97, 105, 110>>
StrBr        == <<98, 114>>
StrStar      == <<42>>
StrGzip      == <<103, 122, 105, 112>>
StrKeep      == <<107, 101, 101, 112>>

\* The text of an older fileset id, held by the refs of the store at the start.
OldFilesetId == Sha256Hex(<<48>>)

\* The store at the start: the object of the content "22", and the refs
\* 'latest' and 'keep', both naming the older fileset.
ServedStore ==
  [names |-> (objPath(ResultTwo.sha256) :> <<0, "obj", 0>>)
               @@ (refPath(StrLatest) :> <<0, "ref", 1>>)
               @@ (refPath(StrKeep) :> <<0, "ref", 2>>),
   data  |-> (<<0, "obj", 0>> :> Cells(ResultTwo.sha256, 1))
               @@ (<<0, "ref", 1>> :> Cells(OldFilesetId, 1))
               @@ (<<0, "ref", 2>> :> Cells(OldFilesetId, 1)),
   dirs  |-> EmptyFs.dirs \cup Ancestors(Dirname(objPath(ResultTwo.sha256)))]

\* What each call uploads when its request is an upload: one file each.
ServeUploads ==
  <<<<[norm |-> <<97>>, r |-> ResultOne]>>, <<[norm |-> <<66>>, r |-> ResultTwo]>>>>

\* A request: method, the first segment of the path (route) and
\* path.split('/')[2] ?? '' (arg), the update_ref query parameter (optional)
\* and the headers the handler reads ('' when absent; accept is optional;
\* if-none-match is given as the list of its entity tags' hashes).
Req(method, route, arg) ==
  [method |-> method, route |-> route, arg |-> arg, updateRefParam |-> None,
   contentType |-> <<>>, accept |-> None, ifNoneMatch |-> <<>>, acceptEncoding |-> <<>>]

UploadRequests ==
  {[Req("POST", "filesets", <<>>) EXCEPT !.contentType = StrAppZip, !.updateRefParam = u] :
     u \in {None, Some(<<>>), Some(StrKeep)}}
    \cup {[Req("POST", "filesets", <<>>) EXCEPT !.contentType = StrAppZip,
                                                 !.accept = Some(StrTextPlain)],
          [Req("POST", "filesets", <<>>) EXCEPT !.contentType = StrTextPlain]}

ObjectRequests ==
  {[Req("GET", "objects", sha) EXCEPT
      !.ifNoneMatch = IF tags = 0 THEN <<>> ELSE IF tags = 1 THEN <<OldFilesetId>>
                      ELSE <<OldFilesetId, sha>>,
      !.acceptEncoding = ae] :
     sha \in {ResultOne.sha256, ResultTwo.sha256}, tags \in 0..2,
     ae \in {<<>>, StrGzip, StrBr}}
    \cup {Req("GET", "objects", <<>>)}

OtherRequests ==
  {Req("GET", "health", <<>>), Req("GET", "filesets", OldFilesetId),
   Req("GET", "refs", StrLatest), Req("GET", "refs", <<>>), Req("DELETE", "objects", <<>>)}

Requests == UploadRequests \cup ObjectRequests \cup OtherRequests

InitServe ==
  /\ mCd = [i \in Runs |-> ServeUploads[i]]
  /\ mIdx = [i \in Runs |-> 0]
  /\ finalEntries = [i \in Runs |-> <<>>]
  /\ seenPaths = [i \in Runs |-> <<>>]
  /\ mWarnings = [i \in Runs |-> <<>>]
  /\ mManifest = [i \in Runs |-> None]
  /\ mRun = 3
  /\ fsNames = ServedStore.names
  /\ fsData = ServedStore.data
  /\ fsDirs = ServedStore.dirs
  /\ pc = [i \in Runs |-> "recv"]
  /\ updateRef = [i \in Runs |-> None]
  /\ tmpPath = [i \in Runs |-> <<>>]
  /\ fd = [i \in Runs |-> None]
  /\ err = [i \in Runs |-> None]
  /\ wroteManifest = [i \in Runs |-> FALSE]
  /\ changedRef = [i \in Runs |-> FALSE]
  /\ IngestIdle
  /\ NormalizeIdle
  /\ QueueIdle
  /\ request \in [Runs -> Requests]
  /\ response = [i \in Runs |-> None]

\* sendText, sendJson and res.writeHead: the status, the text of a text body
\* and the value of a JSON or streamed body.
Answer(status, text, value) == [status |-> status, text |-> text, value |-> value]
Respond(i, a) ==
  /\ response' = [response EXCEPT ![i] = Some(a)]
  /\ pc' = [pc EXCEPT ![i] = "responded"]

\* Lines 54 and 58: the updateRef option of the ingest, from the query.
UpdateRefOfMutant(param) == IF param = None THEN Some(StrLatest) ELSE param
UpdateRefOf(param) ==
  LET u == IF param = None THEN StrLatest ELSE param[1]
  IN IF u = <<>> THEN None ELSE Some(u)

\* openObjectStream: createReadStream returns the stream before the file is
\* opened, so the catch that returns null is not reached for a missing file.
openObjectStream(sha256hex) == Some(objPath(sha256hex))

\* Lines 89 and 95.
IfNoneMatchHas(q) == \E k \in DOMAIN q.ifNoneMatch : q.ifNoneMatch[k] = q.arg
EncodingRefused(q) ==
  /\ q.acceptEncoding # <<>>
  /\ ~Includes(q.acceptEncoding, StrBr)
  /\ ~Includes(q.acceptEncoding, StrStar)

\* The handler, lines 34-124, from the call to its first await that waits on
\* the store: the answer it gives at once, or the start of the ingest, or the
\* headers of the object's stream.
ServeRequest(i) ==
  /\ pc[i] = "recv"
  /\ LET q == request[i]
     IN IF q.method = "GET" /\ q.route = "health"
        THEN Respond(i, Answer(200, "ok", <<>>)) /\ UNCHANGED updateRef
        ELSE IF q.method = "POST" /\ q.route = "filesets" /\ q.arg = <<>>
        THEN IF ~Includes(q.contentType, StrAppZip)
             THEN /\ Respond(i, Answer(415, "Expected Content-Type: application/zip", <<>>))
                  /\ UNCHANGED updateRef
             ELSE /\ updateRef' = [updateRef EXCEPT ![i] = UpdateRefOf(q.updateRefParam)]
                  /\ pc' = [pc EXCEPT ![i] = "loop"]
                  /\ UNCHANGED response
        ELSE IF q.method = "GET" /\ q.route = "filesets"
        THEN /\ IF q.arg = <<>> THEN Respond(i, Answer(400, "Missing fileset id", <<>>))
                ELSE IF loadFilesetManifest(Fs, q.arg) = None
                THEN Respond(i, Answer(404, "Not found", <<>>))
                ELSE Respond(i, Answer(200, "", loadFilesetManifest(Fs, q.arg)[1]))
             /\ UNCHANGED updateRef
        ELSE IF q.method = "GET" /\ q.route = "objects"
        THEN /\ IF q.arg = <<>> THEN Respond(i, Answer(400, "Missing object id", <<>>))
                ELSE IF IfNoneMatchHas(q) THEN Respond(i, Answer(304, "", <<>>))
                ELSE IF EncodingRefused(q)
                THEN Respond(i, Answer(406, "Not Acceptable (need br)", <<>>))
                ELSE IF openObjectStream(q.arg) = None
                THEN Respond(i, Answer(404, "Not found", <<>>))
                ELSE /\ response' = [response EXCEPT ![i] = Some(Answer(200, "", <<>>))]
                     /\ pc' = [pc EXCEPT ![i] = "piping"]
             /\ UNCHANGED updateRef
        ELSE IF q.method = "GET" /\ q.route = "refs"
        THEN /\ IF q.arg = <<>> THEN Respond(i, Answer(400, "Missing ref name", <<>>))
                ELSE IF readRef(Fs, q.arg) \in {None, Some(<<>>)}
                THEN Respond(i, Answer(404, "Not found", <<>>))
                ELSE Respond(i, Answer(200, "", readRef(Fs, q.arg)[1]))
             /\ UNCHANGED updateRef
        ELSE Respond(i, Answer(404, "Not found", <<>>)) /\ UNCHANGED updateRef
  /\ UNCHANGED <<manVars, fsVars, tmpPath, fd, err, wroteManifest, changedRef, ingVars,
                 nzVars, cqVars, request>>

\* obj.pipe(res), line 108: the stream opens the file and delivers it, or
\* emits 'error' with the header of the 200 answer already written; nothing
\* listens for that error.
ObjectStreamOpens(i) ==
  /\ pc[i] = "piping"
  /\ LET c == objectStreamContent(Fs, request[i].arg)
     IN IF c = None THEN pc' = [pc EXCEPT ![i] = "stream_error"] /\ UNCHANGED response
        ELSE Respond(i, Answer(200, "", c[1]))
  /\ UNCHANGED <<manVars, fsVars, updateRef, tmpPath, fd, err, wroteManifest, changedRef,
                 ingVars, nzVars, cqVars, request>>

\* Lines 67-72: uploadZipAsFileset has returned its result.
RespondCreated(i) ==
  /\ pc[i] = "done"
  /\ LET accept == IF request[i].accept = None THEN StrAppJson ELSE request[i].accept[1]
         id == mManifest[i][1].fileset_id
     IN IF Includes(accept, StrAppJson) \/ Includes(accept, StrAnyType)
        THEN Respond(i, Answer(201, "", [filesetId |-> id, manifest |-> mManifest[i][1],
                                          updatedRef |-> updateRef[i]]))
        ELSE Respond(i, Answer(201, "", id))
  /\ UNCHANGED <<manVars, fsVars, updateRef, tmpPath, fd, err, wroteManifest, changedRef,
                 ingVars, nzVars, cqVars, request>>

\* Lines 121-124: uploadZipAsFileset has thrown.
RespondFailed(i) ==
  /\ pc[i] = "threw"
  /\ Respond(i, Answer(500, "Internal Server Error", <<>>))
  /\ UNCHANGED <<manVars, fsVars, updateRef, tmpPath, fd, err, wroteManifest, changedRef,
                 ingVars, nzVars, cqVars, request>>

NextServe ==
  \E i \in Runs :
    \/ ServeRequest(i)
    \/ ObjectStreamOpens(i)
    \/ RespondCreated(i)
    \/ RespondFailed(i)
    \/ EntryStart(i)
    \/ EntryPipelineDone(i)
    \/ EntryPipelineFails(i)
    \/ IngestThrows(i)
    \/ CommitStat(i)
    \/ CommitUnlink(i)
    \/ CommitRename(i)
    \/ StoreManifestOpen(i)
    \/ StoreManifestWrite(i)
    \/ StoreManifestRename(i)
    \/ WriteRefOpen(i)
    \/ WriteRefWrite(i)
    \/ WriteRefRename(i)

SpecServe == InitServe /\ [][NextServe]_vars

-----------------------------------------------------------------------------
(* SpecQueue: one AsyncByteQueue of spool.ts on its own. Chunks arrive from  *)
(* the source in every chunking, and read and peekU32LE are called in every  *)
(* order.                                                                    *)

\* The bytes a chunk is made of. Both are below 128, so the number
\* readUInt32LE makes of four of them is below 2^31.
CqBytes == {3, 75}

\* At most CqMaxBytes bytes arrive, in chunks of 1..CqMaxChunk bytes, and a
\* read asks for 0..CqMaxRead bytes.
CqMaxBytes == 6
CqMaxChunk == 4
CqMaxRead == 5

\* readable emits no empty chunk.
CqChunkChoices == UNION {[1..n -> CqBytes] : n \in 1..CqMaxChunk}

\* The bytes of a list of chunks, in order.
RECURSIVE Flatten(_)
Flatten(chunks) == IF chunks = <<>> THEN <<>> ELSE Head(chunks) \o Flatten(Tail(chunks))

\* buf.readUInt32LE(0)
ReadUInt32LE(buf) == buf[1] + 256 * buf[2] + 65536 * buf[3] + 16777216 * buf[4]

\* The queue object: the fields read and peekU32LE use.
Cq == [chunks |-> cqChunks, length |-> cqLength, consumedTotal |-> cqConsumed]

\* The while loop of read, lines 291-305: out is filled from the chunks
\* (want is the loop's need).
RECURSIVE ReadLoop(_, _, _)
ReadLoop(q, n, out) ==
  IF Len(out) >= n THEN [q |-> q, out |-> out]
  ELSE LET head == q.chunks[1]
           want == n - Len(out)
       IN IF Len(head) <= want
          THEN ReadLoop([q EXCEPT !.chunks = Tail(@), !.length = @ - Len(head)],
                        n, out \o head)
          ELSE ReadLoop([q EXCEPT !.chunks = <<SubSeq(head, want + 1, Len(head))>> \o Tail(@),
                                  !.length = @ - want],
                        n, out \o SubSeq(head, 1, want))

\* read(n), lines 286-308.
QRead(q, n) ==
  IF n = 0 THEN [q |-> q, err |-> None, out |-> <<>>]
  ELSE IF n > q.length THEN [q |-> q, err |-> Some("Queue underflow"), out |-> <<>>]
  ELSE LET r == ReadLoop(q, n, <<>>)
       IN [q |-> [r.q EXCEPT !.consumedTotal = @ + n], err |-> None, out |-> r.out]

\* The slow path of peekU32LE without its restoring consumedTotal.
UnpeekMutant(q, tmp) ==
  [q EXCEPT !.chunks = <<tmp>> \o @, !.length = @ + 4]

\* The slow path of peekU32LE, lines 317-319: the bytes read are put back.
Unpeek(q, tmp) ==
  [q EXCEPT !.chunks = <<tmp>> \o @, !.length = @ + 4, !.consumedTotal = @ - 4]

\* peekU32LE(), lines 310-321; path tells the branch that returned.
QPeekU32LE(q) ==
  IF q.length < 4
  THEN [q |-> q, err |-> Some("Need 4 bytes"), value |-> 0, path |-> "throw"]
  ELSE IF Len(q.chunks[1]) >= 4
  THEN [q |-> q, err |-> None, value |-> ReadUInt32LE(q.chunks[1]), path |-> "fast"]
  ELSE LET r == QRead(q, 4)
       IN [q |-> Unpeek(r.q, r.out), err |-> None,
           value |-> ReadUInt32LE(r.out), path |-> "slow"]

InitQueue ==
  /\ mCd = [i \in Runs |-> <<>>]
  /\ mIdx = [i \in Runs |-> 0]
  /\ finalEntries = [i \in Runs |-> <<>>]
  /\ seenPaths = [i \in Runs |-> <<>>]
  /\ mWarnings = [i \in Runs |-> <<>>]
  /\ mManifest = [i \in Runs |-> None]
  /\ mRun = 3
  /\ StoreIdle
  /\ IngestIdle
  /\ NormalizeIdle
  /\ ServeIdle
  /\ QueueIdle

\* The fields of the queue after a call.
CqBecomes(q) ==
  /\ cqChunks' = q.chunks
  /\ cqLength' = q.length
  /\ cqConsumed' = q.consumedTotal

\* The 'data' listener of the constructor, lines 246-251.
QueueData ==
  \E c \in CqChunkChoices :
    /\ cqConsumed + cqLength + Len(c) <= CqMaxBytes
    /\ CqBecomes([Cq EXCEPT !.chunks = Append(@, c), !.length = @ + Len(c)])
    /\ cqLast' = Some([op |-> "data", err |-> None, value |-> 0, path |-> "push"])
    /\ UNCHANGED <<manVars, fsVars, procVars, ingVars, nzVars, srvVars, cqOut>>

\* A call of read(n) by the stream reader.
QueueRead ==
  \E n \in 0..CqMaxRead :
    LET r == QRead(Cq, n)
    IN /\ CqBecomes(r.q)
       /\ cqOut' = cqOut \o r.out
       /\ cqLast' = Some([op |-> "read", err |-> r.err, value |-> n, path |-> "read"])
       /\ UNCHANGED <<manVars, fsVars, procVars, ingVars, nzVars, srvVars>>

\* A call of peekU32LE() by the stream reader.
QueuePeek ==
  LET r == QPeekU32LE(Cq)
  IN /\ CqBecomes(r.q)
     /\ cqLast' = Some([op |-> "peek", err |-> r.err, value |-> r.value, path |-> r.path])
     /\ UNCHANGED <<manVars, fsVars, procVars, ingVars, nzVars, srvVars, cqOut>>

NextQueue == QueueData \/ QueueRead \/ QueuePeek

SpecQueue == InitQueue /\ [][NextQueue]_vars

-----------------------------------------------------------------------------
(* Claims checked under SpecStore *)

\* The manifests some file under filesets/ holds, whole or in part (the
\* published <id>.json files and the <id>.json.tmp files alike).
ManifestsOnDisk ==
  {c.val : c \in UNION {Range(fsData[fsNames[p]]) :
                          p \in {q \in DOMAIN fsNames : HasPrefix(q, StrFilesets \o <<Slash>>)}}}

\* The fileset ids the ingests have computed.
ComputedIds == {mManifest[i][1].fileset_id : i \in {j \in Runs : mManifest[j] # None}}

\* C1: in every reachable state, every file entry of every manifest under
\* filesets/ has its object file objects/<sha[0:2]>/<sha[2:]>, holding the
\* whole stored form of that content.
C1_ManifestObjectsExist ==
  \A m \in ManifestsOnDisk :
    \A x \in DOMAIN m.files :
      objectStreamContent(Fs, m.files[x].sha256) = Some(Cells(m.files[x].sha256, 1))

\* C1's case: a published manifest lists two files while the other ingest has
\* failed after committing an object or is still running.
C1_Witness ==
  \E i, j \in Runs :
    /\ i # j
    /\ pc[i] = "done"
    /\ loadFilesetManifest(Fs, mManifest[i][1].fileset_id) # None
    /\ Len(mManifest[i][1].files) = 2
    /\ pc[j] \in {"threw", "commit_stat", "commit_unlink"}

\* C2 (as the claim states it): an ingest that threw has written no manifest
\* under filesets/ and has changed no ref.
C2_ThrowLeavesNoManifestNoRef ==
  \A i \in Runs : pc[i] = "threw" => ~wroteManifest[i] /\ ~changedRef[i]

\* C4 (as the claim states it): at any moment a reader gets, from
\* loadFilesetManifest, readRef and the stream of openObjectStream, either
\* absence or a whole value some writer wrote.
C4_ReadersSeeCommittedOnly ==
  /\ \A id \in ComputedIds :
       loadFilesetManifest(Fs, id) \in
         {None} \cup {mManifest[j] : j \in {k \in Runs : mManifest[k] # None}}
  /\ \A n \in RefNames :
       readRef(Fs, n) \in {None} \cup {Some(id) : id \in ComputedIds}
  /\ \A e \in StorePairs :
       objectStreamContent(Fs, e.r.sha256) \in {None, Some(Cells(e.r.sha256, 1))}

\* C5 (as the claim states it): when both ingests update the ref 'latest',
\* neither writeRef fails, and once both are done refs/latest holds one of
\* the two fileset ids.
C5_LastWriterWins ==
  (updateRef[1] = Some(StrLatest) /\ updateRef[2] = Some(StrLatest))
  => /\ \A i \in Runs : err[i] # None => err[i][1].op # "writeRef"
     /\ (pc[1] = "done" /\ pc[2] = "done")
          => readRef(Fs, StrLatest) \in {Some(id) : id \in ComputedIds}

\* The entries whose commitTempObject has returned, with the temp path each
\* was written to.
Committed(i) == 1..mIdx[i]
ObjectContent(fs, sha256hex) == fs.data[fs.names[objPath(sha256hex)]]

\* C12: no call of commitTempObject fails, and after each call that has
\* returned the object file exists with the whole stored form of the content
\* and the call's temp file is gone; in particular when both ingests commit
\* the same sha256 from their own temp files, however their steps interleave.
C12_ConcurrentCommitSameObject ==
  \A i \in Runs :
    /\ err[i] # None => err[i][1].op # "commitTempObject"
    /\ \A k \in Committed(i) :
         LET sha == mCd[i][k].r.sha256
         IN /\ FsExists(Fs, objPath(sha))
            /\ ObjectContent(Fs, sha) = Cells(sha, 1)
            /\ ~FsExists(Fs, makeTempPath(i, k - 1))

\* Both ingests found the object missing; one has renamed its temp file onto
\* the object path and returned, the other is about to rename onto it too.
C12_Witness ==
  \E i, j \in Runs :
    /\ i # j
    /\ mIdx[i] = 1
    /\ pc[j] = "commit_rename"
    /\ mIdx[j] = 0
    /\ mCd[j][1].r.sha256 = mCd[i][1].r.sha256
    /\ fsNames[objPath(mCd[i][1].r.sha256)] = <<i, "obj", 0>>
    /\ FsExists(Fs, tmpPath[j])
    /\ tmpPath[j] # makeTempPath(i, 0)

\* C13: a step never removes an object file nor changes what it holds; the
\* step that ends a commitTempObject which found the object leaves the very
\* file in place and removes the temp file; the step that ends one which did
\* not find it leaves the object holding what the temp file held, and the
\* temp path is gone.
C13_CommitKeepsObject ==
  [][/\ \A e \in StorePairs :
         FsExists(Fs, objPath(e.r.sha256)) =>
           /\ FsExists(Fs', objPath(e.r.sha256))
           /\ ObjectContent(Fs', e.r.sha256) = ObjectContent(Fs, e.r.sha256)
     /\ \A i \in Runs :
         (pc[i] \in {"commit_unlink", "commit_rename"} /\ pc'[i] = "loop") =>
           LET sha == CurrentEntry(i).r.sha256
           IN /\ ~FsExists(Fs', tmpPath[i])
              /\ FsExists(Fs', objPath(sha))
              /\ ObjectContent(Fs', sha) = fsData[fsNames[tmpPath[i]]]
              /\ pc[i] = "commit_unlink" =>
                   fsNames'[objPath(sha)] = fsNames[objPath(sha)]
    ]_vars

\* One ingest has committed the same content twice and the other ingest has
\* none of it: the second commit found the object of the first, which is
\* still the file the first made, and both temp files are gone.
C13_Witness ==
  \E i, j \in Runs :
    /\ i # j
    /\ mIdx[i] = 2
    /\ mCd[i][1].r = mCd[i][2].r
    /\ \A k \in 1..Len(mCd[j]) : mCd[j][k].r # mCd[i][1].r
    /\ fsNames[objPath(mCd[i][1].r.sha256)] = <<i, "obj", 0>>
    /\ ~FsExists(Fs, makeTempPath(i, 0))
    /\ ~FsExists(Fs, makeTempPath(i, 1))

\* C14 (as the claim states it): every ref file that exists holds a fileset
\* id whose manifest file exists.
C14_RefImpliesManifest ==
  \A n \in RefNames :
    FsExists(Fs, refPath(n)) =>
      /\ readRef(Fs, n) \in {Some(id) : id \in ComputedIds}
      /\ FsExists(Fs, filesetPath(readRef(Fs, n)[1]))

-----------------------------------------------------------------------------
(* Claims checked under SpecManifest *)

ManifestBuilt(i) == mManifest[i] # None
ManifestOf(i) == mManifest[i][1]

\* C6 (as the claim states it): in every manifest built, files is strictly
\* ascending by code-point comparison of path; in particular no path occurs
\* twice.
C6_FilesAscendingByCodePoint ==
  \A i \in Runs :
    ManifestBuilt(i) =>
      \A x, y \in DOMAIN ManifestOf(i).files :
        x < y => CodePointCmp(ManifestOf(i).files[x].path,
                              ManifestOf(i).files[y].path) < 0

\* C7 (as the claim states it): two ingests whose final entry sets are equal
\* build the same canonical string and so the same fileset id, whatever the
\* order, duplicates or warnings of their Central Directories.
C7_IdDependsOnEntrySetOnly ==
  (ManifestBuilt(1) /\ ManifestBuilt(2)
     /\ Range(ManifestOf(1).files) = Range(ManifestOf(2).files))
  => /\ CanonicalString(ManifestOf(1).files) = CanonicalString(ManifestOf(2).files)
     /\ ManifestOf(1).fileset_id = ManifestOf(2).fileset_id

\* The Central Directory entries a run has reconciled so far; the positions
\* at which a path occurs for the first time; the last position of the path
\* of position k.
Reconciled(i) == SubSeq(mCd[i], 1, mIdx[i])
FirstPositions(l) == {k \in 1..Len(l) : \A m \in 1..(k - 1) : l[m].norm # l[k].norm}
LastPosition(l, k) ==
  CHOOSE m \in 1..Len(l) :
    l[m].norm = l[k].norm /\ \A n \in (m + 1)..Len(l) : l[n].norm # l[k].norm

\* C18: after any number of Central Directory entries, finalEntries holds one
\* entry per path, in the order of the paths' first occurrences, each with
\* the sha256 and size of the last entry of that path; there is one warning
\* 'Duplicate path: <p> (last wins)' for every occurrence after the first;
\* and the manifest built from them has exactly one file per path, with the
\* last entry's sha256 and size, and those warnings.
C18_DuplicatePathsLastWins ==
  \A i \in Runs :
    LET l  == Reconciled(i)
        fp == FirstPositions(l)
    IN /\ Len(finalEntries[i]) = Cardinality(fp)
       /\ \A k \in fp :
            finalEntries[i][Cardinality({m \in fp : m <= k})] =
              [path |-> l[k].norm,
               sha256 |-> l[LastPosition(l, k)].r.sha256,
               size |-> l[LastPosition(l, k)].r.size]
       /\ Len(mWarnings[i]) = Len(l) - Cardinality(fp)
       /\ \A k \in fp :
            Cardinality({w \in 1..Len(mWarnings[i]) :
                           mWarnings[i][w] = DuplicateWarning(l[k].norm)})
              = Cardinality({m \in 1..Len(l) : l[m].norm = l[k].norm}) - 1
       /\ ManifestBuilt(i) =>
            /\ ManifestOf(i).warnings = mWarnings[i]
            /\ Len(ManifestOf(i).files) = Cardinality(fp)
            /\ \A k \in fp :
                 \E x \in 1..Len(ManifestOf(i).files) :
                   ManifestOf(i).files[x] =
                     [path |-> l[k].norm,
                      sha256 |-> l[LastPosition(l, k)].r.sha256,
                      size |-> l[LastPosition(l, k)].r.size]

\* The manifest of the entries a (content "1"), B, a (content "22"): a is
\* first in finalEntries with the content "22", B second, one warning.
C18_Witness ==
  /\ mCd[1] = <<[norm |-> <<97>>, r |-> ResultOne], [norm |-> <<66>>, r |-> ResultOne],
                [norm |-> <<97>>, r |-> ResultTwo]>>
  /\ ManifestBuilt(1)
  /\ finalEntries[1] = <<[path |-> <<97>>, sha256 |-> ResultTwo.sha256, size |-> 2],
                         [path |-> <<66>>, sha256 |-> ResultOne.sha256, size |-> 1]>>
  /\ mWarnings[1] = <<DuplicateWarning(<<97>>)>>
  /\ ManifestOf(1).file_count = 2

-----------------------------------------------------------------------------
(* Claims checked under SpecIngest *)

\* The files of the manifest the ingest built.
IngestFiles == mManifest[1][1].files

\* C3: the upload with one DEFLATE entry that has a data descriptor, sent
\* whole and within the cap, is ingested: the ingest does not throw before
\* its manifest is built, and the manifest holds a/b.txt with size 3.
C3_DeflateDescriptorIngestSucceeds ==
  (archiveId = "deflateDescriptor" /\ maxZipBytes = Len(body) /\ sharedErr = None) =>
     /\ pc[1] = "threw" => mManifest[1] # None
     /\ mManifest[1] # None =>
          /\ Len(IngestFiles) = 1
          /\ IngestFiles[1].path = NameABTxt
          /\ IngestFiles[1].size = 3

\* What an aborted upload must not have produced: a completed ingest, a built
\* manifest, a manifest file or a ref.
NothingPublished ==
  /\ pc[1] # "done"
  /\ mManifest[1] = None
  /\ ~wroteManifest[1]
  /\ ~changedRef[1]
  /\ \A p \in DOMAIN fsNames :
       ~HasPrefix(p, StrFilesets \o <<Slash>>) /\ ~HasPrefix(p, StrRefs \o <<Slash>>)

\* The ingest is parked on a wait that nothing will end: on the queue, whose
\* waiters are woken by the next chunk or the end of the body only, or on
\* spoolDone while the spool writer neither finishes nor fails.
ParkedForEver ==
  \/ waiters # <<>>
  \/ pc[1] = "await_spool" /\ Quiet /\ wsState \notin {"finished", "errored"}

C9_OverflowSurfacesZipTooLarge ==
  /\ spoolLen <= maxZipBytes
  /\ Len(body) <= maxZipBytes => sharedErr # Some("ZIP too large")
  /\ (sharedErr = Some("ZIP too large") /\ pc[1] = "threw" /\ archiveId # "deflateDescriptor")
        => err[1][1].code = "ZIP too large"

\* C10: the uploads with one STORE entry that has a data descriptor, sent
\* whole and within the cap: the ingest does not throw before its manifest is
\* built, and the manifest holds the entry with the size of its Central
\* Directory record, and the warning of the deferral at offset 0.
C10_StoreDescriptorViaFallback ==
  (archiveId \in {"storeDescriptor", "emptyStoreDescriptor"} /\ sharedErr = None) =>
     /\ pc[1] = "threw" => mManifest[1] # None
     /\ mManifest[1] # None =>
          /\ Len(IngestFiles) = 1
          /\ IngestFiles[1].path = (IF archiveId = "storeDescriptor" THEN NameS ELSE NameE)
          /\ IngestFiles[1].size = (IF archiveId = "storeDescriptor" THEN 3 ELSE 0)
          /\ \E k \in DOMAIN mManifest[1][1].warnings :
               mManifest[1][1].warnings[k] = DeferredWarning(0)

\* C11: every file of a manifest built has a Central Directory entry that is
\* no directory, whose normalized name is the file's path, and whose size and
\* CRC-32 are those computed when the entry was processed, by the streaming
\* loop or by the fallback; the file's sha256 and size are those computed too.
\* The entry streamed from the upload whose Central Directory leaves it out is
\* not in the manifest.
C11_CrossCheckTotal ==
  mManifest[1] # None =>
    /\ \A k \in 1..Len(IngestFiles) :
         \E j \in 1..Len(cdEntries) :
           LET e == cdEntries[j]
               norm == normalizeZipPath(e.fileName)
               off == e.localHeaderOffset
           IN /\ ~e.isDirectory
              /\ norm.err = None
              /\ norm.path = IngestFiles[k].path
              /\ off \in DOMAIN processed
              /\ processed[off].size = e.uncompressedSize
              /\ processed[off].crc32 = e.crc32
              /\ IngestFiles[k].sha256 = processed[off].sha256
              /\ IngestFiles[k].size = processed[off].size
    /\ archiveId = "notInDirectory" =>
         \A k \in 1..Len(IngestFiles) :
           /\ IngestFiles[k].path # FileA.name
           /\ IngestFiles[k].sha256 # Sha256Hex(FileA.raw)

\* The manifest of the upload whose first local entry the Central Directory
\* leaves out: both entries were streamed, one file is in the manifest.
C11_Witness ==
  /\ archiveId = "notInDirectory"
  /\ pc[1] = "done"
  /\ mManifest[1] # None
  /\ Cardinality(DOMAIN processed) = 2
  /\ Len(cdEntries) = 1
  /\ Len(IngestFiles) = 1
  /\ IngestFiles[1].path = FileB.name

\* The local entries of the uploads made with lowered limits.
LocalEntries ==
  [knownSizes |-> <<FileA, FileB>>,
   storeDescriptor |-> <<FileS>>,
   deferredThenKnown |-> <<FileS, FileA>>]

\* C15 (as the claim states it): an ingest that has built its manifest has
\* processed no more entries than max_entries, streamed and fallback entries
\* together, and its manifest lists no more files than that.
C15_EntryCapHolds ==
  mManifest[1] # None =>
    /\ Cardinality(DOMAIN processed) <= limits.maxEntries
    /\ mManifest[1][1].file_count <= limits.maxEntries

\* C16 (as the claim states it): no manifest built reports total_bytes greater
\* than max_total_bytes.
C16_TotalCapHolds ==
  mManifest[1] # None => mManifest[1][1].total_bytes <= limits.maxTotalBytes

\* C17: no entry processed, streamed or by the fallback, and no file of a
\* manifest has a raw size above max_file_bytes; every object under objects/
\* is the object of an entry within the cap; and the ingest fails with 'File
\* too large' only if an entry of the upload exceeds the cap, so a file of
\* exactly max_file_bytes is accepted.
C17_FileCapOnBothPaths ==
  /\ \A off \in DOMAIN processed : processed[off].size <= limits.maxFileBytes
  /\ mManifest[1] # None =>
       \A k \in 1..Len(IngestFiles) : IngestFiles[k].size <= limits.maxFileBytes
  /\ archiveId \in LimitedUploads =>
       \A p \in DOMAIN fsNames :
         HasPrefix(p, StrObjects \o <<Slash>>) =>
           \E k \in 1..Len(LocalEntries[archiveId]) :
             LET raw == LocalEntries[archiveId][k].raw
             IN p = objPath(Sha256Hex(raw)) /\ Len(raw) <= limits.maxFileBytes
  /\ (err[1] # None /\ err[1][1].code = "File too large") =>
       /\ archiveId \in LimitedUploads
       /\ \E k \in 1..Len(LocalEntries[archiveId]) :
            Len(LocalEntries[archiveId][k].raw) > limits.maxFileBytes
       /\ mManifest[1] = None

\* The fallback rejects the deferred three-byte entry under a cap of two bytes
\* after the streamed entries of the same cap were accepted elsewhere: here
\* the ingest has thrown 'File too large' from the Central Directory loop.
C17_Witness ==
  /\ archiveId = "storeDescriptor"
  /\ limits.maxFileBytes = 2
  /\ cdEntries # <<>>
  /\ pc[1] = "threw"
  /\ err[1] = Some([op |-> "pipeline", code |-> "File too large"])

-----------------------------------------------------------------------------
(* Claims checked under SpecNormalize *)

\* The segments of a path: the maximal runs of characters other than '/',
\* the empty runs at the ends and between two slashes included.
Segments(p) ==
  {SubSeq(p, a, b - 1) : <<a, b>> \in
     {ab \in (1..(Len(p) + 1)) \X (1..(Len(p) + 1)) :
        /\ ab[1] <= ab[2]
        /\ (ab[1] = 1 \/ p[ab[1] - 1] = Slash)
        /\ (ab[2] = Len(p) + 1 \/ p[ab[2]] = Slash)
        /\ \A k \in ab[1]..(ab[2] - 1) : p[k] # Slash}}

IsNormalized(p) ==
  /\ p # <<>>
  /\ p[1] # Slash
  /\ \A k \in 1..Len(p) : p[k] # 92 /\ p[k] # 0
  /\ \A seg \in Segments(p) : seg # <<>> /\ seg # <<46>> /\ seg # <<46, 46>>

\* C19: a call of normalizeZipPath throws one of the three messages, or
\* returns the empty string, or returns a normalized path: non-empty, not
\* starting with '/', without backslash or NUL, without an empty, '.' or '..'
\* segment; so the paths that reach a manifest (line 233 drops the empty one)
\* are normalized.  Applied to a path it returned, it returns that path.
C19_NormalizedAndIdempotent ==
  /\ \A k \in 1..Len(nzResult) :
       \/ /\ nzResult[k].err \in {Some("Invalid filename (NUL)"),
                                  Some("Absolute paths not allowed"),
                                  Some("Parent path not allowed")}
       \/ /\ nzResult[k].err = None
          /\ nzResult[k].path = <<>> \/ IsNormalized(nzResult[k].path)
  /\ Len(nzResult) = 2 => nzResult[2] = nzResult[1]

\* The name .\a/ has given the path a, and the path a has given a again.
C19_Witness ==
  /\ nzName = <<46, 92, 97, Slash>>
  /\ nzCalls = 2
  /\ nzResult = <<[err |-> None, path |-> <<97>>], [err |-> None, path |-> <<97>>]>>

\* C20 (as the claim states it): the name \windows\path\z.txt normalizes to
\* windows/path/z.txt.
C20_WindowsPathNormalizes ==
  (nzName = WindowsPath /\ nzCalls >= 1) =>
    nzResult[1] = [err |-> None, path |-> WindowsPathNormalized]

-----------------------------------------------------------------------------
(* Claims checked under SpecIngest: the files an ingest leaves behind *)

\* uploadZipAsFileset has ended: it returned its result or threw.
IngestEnded == pc[1] \in {"returned", "threw"}

\* C21 (as the claim states it): without KEEP_SPOOL the spool file is gone
\* once the ingest has ended, whether it returned or threw; a failed unlink
\* is the only thing that may leave it.
C21_SpoolGoneAtEnd == (IngestEnded /\ ~keepSpool) => spoolFile # "present"

\* The scratch files of processRawToCas: the names under tmp/.
ScratchFiles == {p \in DOMAIN fsNames : HasPrefix(p, StrTmp \o <<Slash>>)}

\* C22 (as the claim states it): once the ingest has ended no scratch file of
\* processRawToCas is left under tmp/.
C22_NoScratchAtEnd == IngestEnded => ScratchFiles = {}

-----------------------------------------------------------------------------
(* Claims checked under SpecIngest: the local header's size fields *)

\* The local header nextHeader is reading or has returned, as the upload's
\* bytes give it: its two 32-bit size fields and its extra block.
HeaderBytes == SubSeq(body, hdr[1].localHeaderOffset + 1, hdr[1].localHeaderOffset + 30)
HeaderCsize32 == u32(HeaderBytes, 18)
HeaderUsize32 == u32(HeaderBytes, 22)
HeaderVarLen == u16(HeaderBytes, 26) + u16(HeaderBytes, 28)
HeaderExtra ==
  SubSeq(body, hdr[1].localHeaderOffset + 30 + u16(HeaderBytes, 26) + 1,
         hdr[1].localHeaderOffset + 30 + HeaderVarLen)
HeaderHasZip64Extra == FindExtra(HeaderExtra, 0, 1, 0) # None

\* nextHeader has returned the header; it has read the header's name and
\* extra block and not returned.
HeaderReturned == hdr # None /\ "compressedSize" \in DOMAIN hdr[1]
HeaderRefused ==
  /\ hdr # None
  /\ "csize32" \in DOMAIN hdr[1]
  /\ qHead = hdr[1].localHeaderOffset + 30 + HeaderVarLen

Zip64Missing(code) == [op |-> "nextHeader", code |-> code]

\* C25: a local header whose compressed size (or else uncompressed size) field
\* is 0xFFFFFFFF and whose extra block has no ZIP64 field is never returned by
\* nextHeader: once its name and extra block are read the ingest has thrown
\* 'Zip64 csize missing' (or else 'Zip64 usize missing') and no manifest is
\* built or written; a returned header with neither sentinel has the sizes of
\* its 32-bit fields, whatever its extra block holds.
C25_Zip64SizesRequired ==
  /\ HeaderReturned =>
       /\ ~(HeaderCsize32 = AllOnes32 \/ HeaderUsize32 = AllOnes32) \/ HeaderHasZip64Extra
       /\ (HeaderCsize32 # AllOnes32 /\ HeaderUsize32 # AllOnes32) =>
            /\ hdr[1].compressedSize = ToNumber(HeaderCsize32)
            /\ hdr[1].uncompressedSize = ToNumber(HeaderUsize32)
  /\ (HeaderRefused /\ ~HeaderHasZip64Extra
        /\ (HeaderCsize32 = AllOnes32 \/ HeaderUsize32 = AllOnes32)) =>
       /\ pc[1] = "threw"
       /\ err[1] = Some(Zip64Missing(IF HeaderCsize32 = AllOnes32 THEN "Zip64 csize missing"
                                     ELSE "Zip64 usize missing"))
       /\ mManifest[1] = None
       /\ ~wroteManifest[1]
       /\ \A p \in DOMAIN fsNames : ~HasPrefix(p, StrFilesets \o <<Slash>>)

\* C25's case: the header with the compressed-size sentinel and an extra block
\* without ZIP64 field has been read and refused.
C25_Witness ==
  /\ archiveId = "csizeSentinel"
  /\ HeaderRefused
  /\ err[1] = Some(Zip64Missing("Zip64 csize missing"))

\* The other cases of C25.
C25_UsizeCase ==
  /\ archiveId = "usizeSentinel"
  /\ HeaderRefused
  /\ err[1] = Some(Zip64Missing("Zip64 usize missing"))
C25_ExtraUnusedCase ==
  /\ archiveId = "unusedZip64Extra"
  /\ HeaderReturned
  /\ HeaderHasZip64Extra
  /\ hdr[1].uncompressedSize = 1
  /\ pc[1] = "returned"

-----------------------------------------------------------------------------
(* Claims checked under SpecIngest: the payload of a deferred entry *)

\* C27 (as the claim states it): in the upload whose only entry, at offset 0,
\* is stored with a data descriptor and holds the bytes 50 4B 03 04, every header nextHeader reads
\* or returns starts at offset 0, no result is recorded for another offset and
\* no more than the one entry is counted.
C27_HeadersAtEntryOffsets ==
  archiveId = "storedNestedZip" =>
    /\ hdr # None => hdr[1].localHeaderOffset = 0
    /\ \A r \in DOMAIN processed : r = 0
    /\ entryCount <= 1

-----------------------------------------------------------------------------
(* Claims checked under SpecIngest: AsyncByteQueue.ensure *)

\* ensure(n) has returned to its caller, whose continuation is the next to
\* run: the ingest's code with n = need, or streamUnknown's read with n = 1.
EnsureReturned == runq # <<>> /\ Head(runq)[2] = "cont"
EnsuredBytes == IF Head(runq)[1] = "main" THEN need ELSE 1

\* C29 (as the claim states it): when ensure(n) has returned to its caller at
\* least n bytes are buffered; it has
\* thrown 'Unexpected EOF' only with the producer ended (or failed) and fewer
\* than n bytes buffered, and no caller stays parked once the producer has
\* ended: every woken caller returns or throws.
C29_EnsureReturnsWithBytes ==
  /\ EnsureReturned => qLen >= EnsuredBytes
  /\ (err[1] # None /\ err[1][1] = [op |-> "ensure", code |-> "Unexpected EOF"]) =>
       qEnded /\ qLen < need
  /\ (qEnded /\ Quiet) => waiters = <<>>

\* The producer has ended and a later ensure returns on bytes that were
\* buffered before.
C29_BufferedAfterEnd ==
  /\ qEnded
  /\ reqState = "ended"
  /\ EnsureReturned
  /\ Head(runq)[1] = "main"
  /\ need = 30
  /\ qLen >= 30

-----------------------------------------------------------------------------
(* Claims checked under SpecIngest: the back-pressure of teeToSpool *)

\* The 'data' handler of req writes a chunk to the two sinks in this step.
ChunkWritten == spoolLen' # spoolLen \/ passLen' # passLen

\* C28: while a sink that answered false to write() has not emitted 'drain'
\* the request is not flowing (paused, or destroyed by an error), a paused
\* request still waits for such a sink, no chunk is written to either sink
\* in between, and the two sinks have received the same bytes of the body.
C28_PausedUntilAllDrained ==
  /\ [](/\ awaiting # {} => reqState \in {"paused", "destroyed"}
        /\ reqState = "paused" => awaiting # {}
        /\ spoolLen = passLen)
  /\ [][ChunkWritten =>
          /\ awaiting = {}
          /\ reqState = "flowing"
          /\ spoolLen' - spoolLen = passLen' - passLen
          /\ reqState' = (IF awaiting' # {} THEN "paused" ELSE "flowing")]_vars

\* C28's case: both sinks answered false for the last chunk, neither has
\* emitted 'drain' yet and the request is paused with body left to come.
C28_Witness ==
  /\ reqState = "paused"
  /\ awaiting = Sinks
  /\ sent > 0
  /\ sent < Len(body)
  /\ sinkReady # {AllReady}

\* The number of buffered bytes from which a queue with back-pressure would
\* hold back its producer.
QueueHighWater == 32

\* C26 (as the claim states it): no chunk of the body is delivered while the
\* queue already buffers QueueHighWater bytes or more, so that the queue never
\* holds more than QueueHighWater bytes and one chunk.
C26_QueueHoldsBackProducer ==
  [][sent' # sent => qLen < QueueHighWater]_vars

-----------------------------------------------------------------------------
(* Claims checked under SpecServe *)

\* Call i of the handler runs in this step from the request to its first
\* answer or await.
Handled(i) == pc[i] = "recv" /\ pc'[i] # "recv"

\* Call i serves GET /objects/{sha} for a sha without object file, with no
\* matching If-None-Match and an Accept-Encoding that is not refused.
AbsentObjectAsked(i) ==
  /\ request[i].method = "GET"
  /\ request[i].route = "objects"
  /\ request[i].arg # <<>>
  /\ ~FsExists(Fs, objPath(request[i].arg))
  /\ ~IfNoneMatchHas(request[i])
  /\ ~EncodingRefused(request[i])

\* C23 (as the claim states it): the handler answers such a request with 404
\* 'Not found', and writes no 200 header.
C23_AbsentObjectIs404 ==
  [][\A i \in Runs :
       (Handled(i) /\ AbsentObjectAsked(i)) =>
         /\ response'[i] # None
         /\ response'[i][1].status = 404
         /\ response'[i][1].text = "Not found"]_vars

\* Call i serves POST /filesets.
IsUpload(i) == request[i].method = "POST" /\ request[i].route = "filesets"
ZipUpload(i) == IsUpload(i) /\ Includes(request[i].contentType, StrAppZip)

\* An upload without Content-Type application/zip is answered 415, starts
\* no ingest and leaves the store as it is.
C24_NotZipRefused ==
  /\ [](\A i \in Runs :
          (IsUpload(i) /\ ~ZipUpload(i)) =>
            /\ pc[i] \in {"recv", "responded"}
            /\ response[i] # None => response[i][1].status = 415
            /\ ~wroteManifest[i] /\ ~changedRef[i])
  /\ [][\A i \in Runs :
          (Handled(i) /\ IsUpload(i) /\ ~ZipUpload(i)) => UNCHANGED fsVars]_vars

\* With update_ref empty the ingest runs without ref name, changes no ref,
\* and its 201 answer gives updatedRef null.
C24_EmptyDisables ==
  \A i \in Runs :
    (ZipUpload(i) /\ request[i].updateRefParam = Some(<<>>) /\ pc[i] # "recv") =>
      /\ updateRef[i] = None
      /\ ~changedRef[i]
      /\ (response[i] # None /\ response[i][1].status = 201) =>
           response[i][1].value.updatedRef = None

\* With update_ref absent the ingest runs with ref name 'latest', and at the
\* step it succeeds ref 'latest' holds its fileset id.
C24_AbsentSetsLatest ==
  [][\A i \in Runs :
       (ZipUpload(i) /\ request[i].updateRefParam = None
          /\ pc[i] # "done" /\ pc'[i] = "done") =>
         /\ updateRef[i] = Some(StrLatest)
         /\ readRef(Fs', StrLatest) = Some(mManifest[i][1].fileset_id)]_vars

\* C24 (as the claim states it): an upload without Content-Type
\* application/zip is answered 415 and changes nothing in the store; with
\* update_ref empty the ingest writes no ref, leaves every ref as it is and
\* answers updatedRef null; with update_ref absent ref 'latest' is set to the
\* new fileset id on success.
C24_UpdateRefParameter ==
  C24_NotZipRefused /\ [](C24_EmptyDisables) /\ C24_AbsentSetsLatest

-----------------------------------------------------------------------------
(* Claims checked under SpecQueue *)

\* This step is a call of peekU32LE, or of read.
PeekCalled == cqLast' # None /\ cqLast'[1].op = "peek"
ReadCalled == cqLast' # None /\ cqLast'[1].op = "read"

\* C30: a call of peekU32LE leaves consumedTotal, the buffered length, the
\* bytes already read and the bytes later reads will return as they were,
\* whatever the chunking; with at least 4 bytes buffered it returns the
\* little-endian u32 of the next 4 bytes (else it throws 'Need 4 bytes');
\* and a read returns the next bytes of that same sequence.
C30_PeekConsumesNothing ==
  /\ [](cqLength = Len(Flatten(cqChunks)))
  /\ [][PeekCalled =>
          /\ cqConsumed' = cqConsumed
          /\ cqLength' = cqLength
          /\ cqOut' = cqOut
          /\ Flatten(cqChunks') = Flatten(cqChunks)
          /\ IF cqLength >= 4
             THEN /\ cqLast'[1].err = None
                  /\ cqLast'[1].value = ReadUInt32LE(SubSeq(Flatten(cqChunks), 1, 4))
             ELSE cqLast'[1].err = Some("Need 4 bytes")]_vars
  /\ [][ReadCalled =>
          /\ cqOut' \o Flatten(cqChunks') = cqOut \o Flatten(cqChunks)
          /\ cqLast'[1].err = None =>
               /\ Len(cqOut') = Len(cqOut) + cqLast'[1].value
               /\ cqConsumed' = cqConsumed + cqLast'[1].value]_vars

\* peekU32LE has just returned from its slow path: the 4 bytes spanned
\* several chunks, after an earlier read had cut into a chunk.
C30_Witness ==
  /\ cqLast # None
  /\ cqLast[1].op = "peek"
  /\ cqLast[1].path = "slow"
  /\ cqLast[1].value = ReadUInt32LE(<<75, 3, 3, 75>>)
  /\ cqConsumed = 1
  /\ cqLength = 5
  /\ Len(cqChunks) = 2

\* peekU32LE has returned from its fast path.
C30_FastPeek ==
  /\ cqLast # None
  /\ cqLast[1].op = "peek"
  /\ cqLast[1].path = "fast"
  /\ cqLength > 4

-----------------------------------------------------------------------------
(* Claims checked under SpecIngest: the end of the streaming phase *)

\* nextHeader's code after ensure(4) is the next to run.
AtSignature == pc[1] = "nh_sig" /\ runq # <<>> /\ Head(runq) = <<"main", "cont">>

\* The errors the stream reader and its queue throw.
ReaderOps == {"ensure", "peekU32LE", "read", "nextHeader"}

\* C31: nextHeader returns null exactly when the 4 bytes it peeks are not the
\* local file header signature, and the queue is discarding from that step and
\* only from it; while discarding the buffered length is 0, the ingest does
\* not fail with an error of the reader or its queue, every byte the request
\* has delivered is in the spool, and once the body has ended the whole body
\* is there and the spool writer is ending or finished, so that the ingest
\* goes on to the Central Directory only with the whole upload spooled.
C31_NullThenDiscarding ==
  /\ [](qDiscarding =>
          /\ qLen = 0
          /\ pc[1] = "threw" => err[1][1].op \notin ReaderOps
          /\ reqState # "destroyed" => spoolLen = sent
          /\ reqState = "ended" => spoolLen = Len(body) /\ wsState \in {"ending", "finished"}
          /\ pc[1] = "read_cd" => wsState = "finished" /\ spoolLen = Len(body))
  /\ [][/\ AtSignature =>
             /\ pc'[1] = "await_spool" <=> (qLen >= 4 /\ QueueBytes(4) # LFH_SIG)
             /\ pc'[1] = "await_spool" => qDiscarding' /\ hdr' = hdr
        /\ (qDiscarding' /\ ~qDiscarding) => AtSignature /\ pc'[1] = "await_spool"
        /\ qDiscarding => qDiscarding']_vars

\* The queue is discarding with the body still arriving: bytes after the
\* signature that ended the streaming phase are in the spool, none is
\* buffered, and more are to come.
C31_Witness ==
  /\ qDiscarding
  /\ pc[1] = "await_spool"
  /\ reqState = "flowing"
  /\ sent < Len(body)
  /\ spoolLen > qHead + 4
  /\ qLen = 0

\* The body has ended after that, and spool completion has resolved.
C31_SpoolResolved ==
  /\ qDiscarding
  /\ pc[1] = "read_cd"
  /\ wsState = "finished"
  /\ reqState = "ended"
  /\ archiveId = "knownSizes"

\* The streaming loop is running (line 178 to 217).
Streaming ==
  pc[1] \in {"nh_sig", "nh_fixed", "nh_var", "body_start", "body_known", "pipe_wait",
             "dd_first", "dd_rest"}

\* nextHeader takes its localHeaderOffset in this step (line 398).
OffsetTaken == AtSignature /\ pc'[1] = "nh_fixed"

\* nextHeader returns a header in this step (line 426).
HeaderReturnedNow == pc[1] = "nh_var" /\ entryCount' = entryCount + 1

\* The streaming loop sets a key of processed in this step (line 216).
KeySet == Streaming /\ processed' # processed

\* The spool holds the local file header signature at offset k.
SpoolHeaderAt(k) == k + 4 <= spoolLen /\ SubSeq(Spool, k + 1, k + 4) = LFH_SIG

\* C32: the localHeaderOffset nextHeader takes is the number of body bytes the
\* queue has handed out, where the body and the spool hold the signature it
\* has just peeked, and the peek hands out nothing; it is greater than the
\* offset of the header before and than every key of processed; the header
\* returned carries that offset, which precedes the bytes read for it; the
\* key the loop sets is that offset, a new key, and every key of processed is
\* the offset of a local file header signature in the spool.
C32_OffsetsOfHeaders ==
  /\ [](\A k \in DOMAIN processed : SpoolHeaderAt(k))
  /\ [][/\ AtSignature => qHead' = qHead
        /\ OffsetTaken =>
             /\ hdr'[1].localHeaderOffset = qHead
             /\ SubSeq(body, qHead + 1, qHead + 4) = LFH_SIG
             /\ SpoolHeaderAt(qHead)
             /\ hdr # None => hdr[1].localHeaderOffset < qHead
             /\ \A k \in DOMAIN processed : k < qHead
        /\ HeaderReturnedNow =>
             /\ hdr'[1].localHeaderOffset = hdr[1].localHeaderOffset
             /\ qHead' = hdr[1].localHeaderOffset + 30 + Len(hdr'[1].fileNameBytes)
                           + hdr[1].extraLen
        /\ KeySet =>
             /\ hdr[1].localHeaderOffset \notin DOMAIN processed
             /\ DOMAIN processed' = DOMAIN processed \cup {hdr[1].localHeaderOffset}]_vars

\* Two streamed entries are in processed, under the offsets of their headers:
\* 0 and the first local record's length.
C32_Witness ==
  /\ archiveId = "knownSizes"
  /\ Streaming
  /\ Cardinality(DOMAIN processed) = 2
  /\ 0 \in DOMAIN processed
  /\ \E k \in DOMAIN processed : k = 30 + Len(NameA) + Len(FileA.raw)

-----------------------------------------------------------------------------
(* Claims checked under SpecIngest: processRawToCas and the object files *)

\* The files under objects/, with what they hold.
ObjectPaths(fs) == {p \in DOMAIN fs.names : HasPrefix(p, StrObjects \o <<Slash>>)}
ObjectFiles(fs) == [p \in ObjectPaths(fs) |-> fs.data[fs.names[p]]]

\* The raw bytes that have passed the tap of the streamed entry, and whether
\* its source has ended without error: an entry of known size has delivered
\* its compressedSize bytes, a DEFLATE stream has reached its final block.
StreamedRaw == IF hdr[1].method = 0 THEN bodyBuf ELSE InflateRaw(bodyBuf).out
StreamedWhole ==
  /\ ~HasDataDescriptor(hdr[1].flags) => Len(bodyBuf) = hdr[1].compressedSize
  /\ hdr[1].method = 8 => InflateRaw(bodyBuf).status = "done"

\* The same for the entry the fallback reads from the spool.
FallbackEntry ==
  LET e == cdEntries[cdIdx + 1]
  IN SpoolEntryRaw(Spool, e.localHeaderOffset, e.method, e.compressedSize)

\* The ingest throws in this step.
ThrowsNow == pc[1] # "threw" /\ pc'[1] = "threw"

\* processRawToCas or processEntryFromSpool throws in this step: the temp
\* file cannot be made, the entry's source or pipeline fails, or the commit.
ProcessingFails ==
  /\ ThrowsNow
  /\ \/ err'[1][1].op \in {"pipeline", "processRawToCas", "processEntryFromSpool",
                           "commitTempObject"}
     \/ pc[1] \in {"body_start", "body_known"} /\ err'[1][1].op = "ensure"

\* The errors of the size and CRC-32 comparisons, which are made after
\* processRawToCas has returned.
CrossCheckCodes ==
  {"Size mismatch (local header)", "CRC mismatch (local header)",
   "Size mismatch (DD)", "CRC mismatch (DD)",
   "Size mismatch vs CD", "CRC mismatch vs CD",
   "Fallback size mismatch", "Fallback CRC mismatch"}

\* The object of raw bytes is what this step adds to objects/.
Commits(raw) ==
  /\ ~FileTooLarge(Len(raw), limits)
  /\ objPath(Sha256Hex(raw)) \notin ObjectPaths(Fs)
  /\ ObjectFiles(Fs') =
       (objPath(Sha256Hex(raw)) :> Cells(Sha256Hex(raw), 1)) @@ ObjectFiles(Fs)

\* The object of the entry whose comparison fails in this step.
CheckedSha ==
  IF pc[1] = "pipe_wait" THEN Sha256Hex(StreamedRaw)
  ELSE IF pc[1] = "dd_rest" THEN result[1].sha256
  ELSE IF cdEntries[cdIdx + 1].localHeaderOffset \in DOMAIN processed
  THEN processed[cdEntries[cdIdx + 1].localHeaderOffset].sha256
  ELSE Sha256Hex(FallbackEntry.raw)

\* C33: a step changes the files under objects/ only by adding the object of
\* an entry whose pipeline has ended without error, streamed or read from the
\* spool, named by the SHA-256 of all the raw bytes of that entry; a step in
\* which the processing of an entry fails leaves objects/ as it was; and a
\* step in which a size or CRC-32 comparison fails leaves the object of that
\* entry in place.
C33_CommitAfterWholePipeline ==
  [][/\ ObjectFiles(Fs') # ObjectFiles(Fs) =>
          \/ pc[1] = "pipe_wait" /\ StreamedWhole /\ Commits(StreamedRaw)
          \/ pc[1] = "reconcile" /\ FallbackEntry.err = None /\ Commits(FallbackEntry.raw)
     /\ ProcessingFails => ObjectFiles(Fs') = ObjectFiles(Fs)
     /\ (ThrowsNow /\ err'[1][1].code \in CrossCheckCodes) =>
          /\ objPath(CheckedSha) \in ObjectPaths(Fs')
          /\ ObjectFiles(Fs')[objPath(CheckedSha)] = Cells(CheckedSha, 1)]_vars

\* The fallback has committed the object of a deferred entry and its CRC-32
\* comparison with the Central Directory has failed: the object is there.
C33_Witness ==
  /\ pc[1] = "threw"
  /\ err[1][1].code = "Fallback CRC mismatch"
  /\ objPath(Sha256Hex(FileS.raw)) \in ObjectPaths(Fs)

\* The comparison with the local header has failed in the streaming loop:
\* the object of the entry is there.
C33_LocalHeaderCheck ==
  /\ pc[1] = "threw"
  /\ err[1][1].code = "CRC mismatch (local header)"
  /\ ObjectPaths(Fs) = {objPath(Sha256Hex(FileA.raw))}

\* The pipeline of an entry has failed: no object was made.
C33_FailedEntry ==
  /\ pc[1] = "threw"
  /\ err[1][1].op = "pipeline"
  /\ ObjectPaths(Fs) = {}

-----------------------------------------------------------------------------
(* Claims checked under SpecIngest: the fallback *)

\* The Central Directory entry the loop is at, and whether this step hands it
\* to processEntryFromSpool (lines 228-244).
CdEntry == cdEntries[cdIdx + 1]
FallbackCalled ==
  /\ pc[1] = "reconcile"
  /\ pc'[1] # pc[1] \/ cdIdx' # cdIdx
  /\ ~CdEntry.isDirectory
  /\ CdEntry.method \in {0, 8}
  /\ normalizeZipPath(CdEntry.fileName).err = None
  /\ normalizeZipPath(CdEntry.fileName).path # <<>>
  /\ CdEntry.localHeaderOffset \notin DOMAIN processed

\* The local header the spool holds at the entry's offset, and the
\* compressedSize bytes after it, its name and its extra block.
SpoolHeader == ReadAt(Spool, CdEntry.localHeaderOffset, 30)
SpoolDataStart == CdEntry.localHeaderOffset + 30 + u16(SpoolHeader, 26) + u16(SpoolHeader, 28)
SpoolData == SubSeq(Spool, SpoolDataStart + 1, SpoolDataStart + CdEntry.compressedSize)

\* The fallback runs only once spool completion has resolved, on the whole
\* upload.
C34_AfterSpoolDone ==
  pc[1] \in {"read_cd", "reconcile"} =>
    wsState = "finished" /\ reqState = "ended" /\ spoolLen = Len(body)

\* Without the signature at the offset the ingest throws 'Local header
\* signature mismatch', and no manifest is built or written.
C34_SignatureChecked ==
  [][(FallbackCalled /\ u32(SpoolHeader, 0) # LFH_SIG) =>
       /\ pc'[1] = "threw"
       /\ err'[1] = Some([op |-> "processEntryFromSpool",
                          code |-> "Local header signature mismatch"])
       /\ mManifest'[1] = None
       /\ ~wroteManifest'[1]
       /\ UNCHANGED fsVars]_vars

\* With the signature there, the bytes processed are the compressedSize
\* bytes after the header, its name and its extra block: the call does not
\* fail before its pipeline, and what it returns is the result for those
\* bytes.
C34_ExactRange ==
  [][(FallbackCalled /\ u32(SpoolHeader, 0) = LFH_SIG) =>
       /\ Len(SpoolData) = CdEntry.compressedSize
       /\ pc'[1] = "threw" => err'[1][1].op # "processEntryFromSpool"
       /\ pc'[1] # "threw" =>
            processed'[CdEntry.localHeaderOffset] =
              StreamResult(IF CdEntry.method = 0 THEN SpoolData
                           ELSE InflateRaw(SpoolData).out)]_vars

\* C34 (as the claim states it): the fallback reads the spool only after spool
\* completion; it fails with 'Local header signature mismatch', with no
\* manifest, when the spool has no local file header signature at the Central
\* Directory's offset; otherwise it processes exactly compressedSize bytes
\* from offset + 30 + name_len + extra_len of the local header.
C34_FallbackReadsEntry ==
  [](C34_AfterSpoolDone) /\ C34_SignatureChecked /\ C34_ExactRange

-----------------------------------------------------------------------------
(* Claims checked under SpecIngestLive *)

\* The body has ended or failed.
BodyOver == reqState \in {"ended", "destroyed"}

=============================================================================
